---- MODULE Spec2Model ----
(***************************************************************************)
(* Gambition combat engine: the poker hand classifier (poker.py), the      *)
(* passive items (jokers.py), the status effect registry                   *)
(* (status_effects.py), the player's attack pipeline and cards             *)
(* (entities/player.py, card_abilities.py, deck.py), the enemy             *)
(* (entities/enemy.py) and the boss encounters (boss_encounters.py).       *)
(*                                                                         *)
(* Each subsystem has its own specification over the shared variables:     *)
(*   SpecPoker   get_poker_hand on dealt selections                        *)
(*   SpecJokers  add_joker / remove_joker / apply_jokers on the held list  *)
(*   SpecStatus  one combatant's StatusEffectManager                       *)
(*   SpecAttack  Player.form_hand_and_attack and Player.start_turn         *)
(*   SpecBoss    a boss encounter: phases, abilities, take_player_turn     *)
(*   SpecCards   hand, deck and discard pile under arbitrary index lists   *)
(*   SpecHand    the same piles under valid selections, the joker          *)
(*               abilities and the combat lifecycle                        *)
(*   SpecCombat  one combat of the player against an enemy                 *)
(***************************************************************************)
EXTENDS Integers, Sequences, FiniteSets, TLC

VARIABLES
    cards,        \* poker: the selection handed to get_poker_hand
    hand_name,    \* poker: returned hand name ("none" before the call)
    hand_values,  \* poker: returned sorted values
    jokers,       \* Player.jokers: held passive items, acquisition order
    aj,           \* jokers: record of the last apply_jokers call
    effects,      \* StatusEffectManager.effects of the player / the combatant
    hp,           \* hp of the owner of `effects`
    next_id,      \* identity of the next StatusEffect object created
    st,           \* status: observation of the last manager call, and history
    enemy,        \* attack: the enemy [hp, max_hp, effects]
    pl,           \* attack: the player's other combat fields
    atk,          \* attack: record of the last form_hand_and_attack call
    boss,         \* boss: the Boss (phase, abilities, enemy, turn_count, ...)
    bx,           \* boss: the encounter's fields and the last boss call
    piles,        \* cards: the player's hand, deck, discard pile and budget
    dk            \* cards: record of the last call on the piles

vars == <<cards, hand_name, hand_values, jokers, aj, effects, hp, next_id,
          st, enemy, pl, atk, boss, bx, piles, dk>>

-----------------------------------------------------------------------------
(* Sequence helpers (Python list operations)                               *)

RECURSIVE SumSeq(_)
SumSeq(s) == IF s = <<>> THEN 0 ELSE Head(s) + SumSeq(Tail(s))

\* list.count(x)
CountIn(s, x) == Cardinality({i \in 1..Len(s) : s[i] = x})

\* x in list
InSeq(s, x) == \E i \in 1..Len(s) : s[i] = x

\* list.remove(x): drops the first element equal to x
RECURSIVE RemoveFirst(_, _)
RemoveFirst(s, x) ==
    IF s = <<>> THEN <<>>
    ELSE IF Head(s) = x THEN Tail(s)
    ELSE <<Head(s)>> \o RemoveFirst(Tail(s), x)

\* s[:n]
Prefix(s, n) == SubSeq(s, 1, IF Len(s) < n THEN Len(s) ELSE n)

RECURSIVE InsertAsc(_, _)
InsertAsc(s, x) ==
    IF s = <<>> THEN <<x>>
    ELSE IF x <= Head(s) THEN <<x>> \o s
    ELSE <<Head(s)>> \o InsertAsc(Tail(s), x)

\* sorted(s)
RECURSIVE SortAsc(_)
SortAsc(s) == IF s = <<>> THEN <<>> ELSE InsertAsc(SortAsc(Tail(s)), Head(s))

Reverse(s) == [i \in 1..Len(s) |-> s[Len(s) + 1 - i]]

Min2(a, b) == IF a < b THEN a ELSE b
Max2(a, b) == IF a > b THEN a ELSE b

-----------------------------------------------------------------------------
(* constants.py, card.py                                                   *)

SUITS == <<"Hearts", "Diamonds", "Clubs", "Spades">>
RANKS == <<"2", "3", "4", "5", "6", "7", "8", "9", "10", "J", "Q", "K", "A">>

\* CARD_VALUES = {rank: index + 2 ...} with a 0-based index
CARD_VALUES(rank) == (CHOOSE i \in 1..Len(RANKS) : RANKS[i] = rank) + 1

Card(suit, rank) == [suit |-> suit, rank |-> rank]
CardValue(c) == CARD_VALUES(c.rank)

HAND_MULTIPLIERS(name) ==
    CASE name = "High Card" -> 0
      [] name = "Pair" -> 1
      [] name = "Two Pair" -> 2
      [] name = "Three of a Kind" -> 3
      [] name = "Straight" -> 4
      [] name = "Flush" -> 5
      [] name = "Full House" -> 9
      [] name = "Four of a Kind" -> 16
      [] name = "Straight Flush" -> 25
      [] name = "Royal Flush" -> 50
      [] name = "Five of a Kind" -> 40
      [] name = "Flush House" -> 35
      [] name = "Flush Five" -> 100
      [] OTHER -> -1          \* not a key of the table

\* A variant that multiplies every hand by one.
hand_multiplier_one(name) == 1

\* poker.hand_multiplier: HAND_MULTIPLIERS.get(hand_name, 0)
hand_multiplier(name) ==
    IF HAND_MULTIPLIERS(name) = -1 THEN 0 ELSE HAND_MULTIPLIERS(name)

-----------------------------------------------------------------------------
(* poker.py: get_poker_hand                                                *)

\* values = sorted([card.value for card in cards])
SortedValues(cs) == SortAsc([i \in 1..Len(cs) |-> CardValue(cs[i])])

\* rank_counts, then counts = sorted(rank_counts.values(), reverse=True)
RECURSIVE DistinctAsc(_)
DistinctAsc(vs) ==
    IF vs = <<>> THEN <<>>
    ELSE IF Len(vs) > 1 /\ vs[1] = vs[2] THEN DistinctAsc(Tail(vs))
    ELSE <<Head(vs)>> \o DistinctAsc(Tail(vs))

RankCounts(vs) ==
    LET ks == DistinctAsc(vs)
    IN  Reverse(SortAsc([i \in 1..Len(ks) |-> CountIn(vs, ks[i])]))

\* is_flush = len(set(suits)) == 1
IsFlush(cs) == Cardinality({cs[i].suit : i \in 1..Len(cs)}) = 1

\* is_sequential = all(values[i + 1] == values[i] + 1 for i in range(4))
IsSequential(vs) == \A i \in 1..4 : vs[i + 1] = vs[i] + 1

IsWheelNever(vs) == FALSE

\* is_wheel_straight = values == [2, 3, 4, 5, 14]
IsWheelStraight(vs) == vs = <<2, 3, 4, 5, 14>>

IsStraight(vs) == IsSequential(vs) \/ IsWheelStraight(vs)

\* The chain of returns, in the order of the source.
get_poker_hand(cs) ==
    IF Len(cs) # 5 THEN [name |-> "Invalid Hand", values |-> <<>>]
    ELSE
    LET values == SortedValues(cs)
        counts == RankCounts(values)
        is_flush == IsFlush(cs)
        is_straight == IsStraight(values)
        name ==
            IF counts = <<5>> THEN "Five of a Kind"
            ELSE IF counts = <<5>> /\ is_flush THEN "Flush Five"
            ELSE IF is_straight /\ is_flush /\ values = <<10, 11, 12, 13, 14>>
                 THEN "Royal Flush"
            ELSE IF is_straight /\ is_flush THEN "Straight Flush"
            ELSE IF counts = <<3, 2>> /\ is_flush THEN "Flush House"
            ELSE IF counts = <<4, 1>> THEN "Four of a Kind"
            ELSE IF counts = <<3, 2>> THEN "Full House"
            ELSE IF is_flush THEN "Flush"
            ELSE IF is_straight THEN "Straight"
            ELSE IF counts = <<3, 1, 1>> THEN "Three of a Kind"
            ELSE IF counts = <<2, 2, 1>> THEN "Two Pair"
            ELSE IF counts = <<2, 1, 1, 1>> THEN "Pair"
            ELSE "High Card"
    IN  [name |-> name, values |-> values]

-----------------------------------------------------------------------------
(* SpecPoker: selections are dealt card by card from a pool and handed to  *)
(* get_poker_hand.  A selection may repeat a card (the deck can hold       *)
(* copies).  Cards are dealt in non-decreasing pool order, suit first, so  *)
(* the values arrive unsorted and every multiset of the pool is covered.   *)

MaxCards == 5

PokerSuits == <<"Hearts", "Spades">>
PokerRanks == <<"2", "3", "4", "5", "6", "10", "J", "Q", "K", "A">>

PoolSize == Len(PokerSuits) * Len(PokerRanks)
PoolCard(k) ==
    Card(PokerSuits[((k - 1) \div Len(PokerRanks)) + 1],
         PokerRanks[((k - 1) % Len(PokerRanks)) + 1])
PoolIndex(c) == CHOOSE k \in 1..PoolSize : PoolCard(k) = c

IdleJokers == jokers = <<>> /\ aj = [called |-> FALSE]
IdleStatus == effects = <<>> /\ hp = 0 /\ next_id = 0 /\ st = [op |-> "none"]
IdleAttack == enemy = [hp |-> 0] /\ pl = [turn |-> 0] /\ atk = [called |-> FALSE]
IdleBoss == boss = [phase |-> "intro"] /\ bx = [op |-> "none"]
IdleCards == piles = [hand |-> <<>>] /\ dk = [op |-> "none"]
IdlePoker == cards = <<>> /\ hand_name = "none" /\ hand_values = <<>>

InitPoker == IdlePoker /\ IdleBoss /\ IdleCards /\ IdleJokers /\ IdleStatus /\ IdleAttack

Deal(k) ==
    /\ hand_name = "none"
    /\ Len(cards) < MaxCards
    /\ cards # <<>> => PoolIndex(cards[Len(cards)]) <= k
    /\ cards' = Append(cards, PoolCard(k))
    /\ UNCHANGED <<boss, bx, piles, dk,
                   hand_name, hand_values, jokers, aj, effects, hp, next_id,
                   st, enemy, pl, atk>>

Classify ==
    /\ hand_name = "none"
    /\ hand_name' = get_poker_hand(cards).name
    /\ hand_values' = get_poker_hand(cards).values
    /\ UNCHANGED <<boss, bx, piles, dk,
                   cards, jokers, aj, effects, hp, next_id, st, enemy, pl, atk>>

NextPoker == (\E k \in 1..PoolSize : Deal(k)) \/ Classify

SpecPoker == InitPoker /\ [][NextPoker]_vars

\* Reference reading of the categories, by sets and cardinalities.
ValueSet(cs) == {CardValue(cs[i]) : i \in 1..Len(cs)}
Occurrences(cs, v) == Cardinality({i \in 1..Len(cs) : CardValue(cs[i]) = v})
RanksWith(cs, n) == {v \in ValueSet(cs) : Occurrences(cs, v) = n}
OneSuit(cs) == \A i, j \in 1..Len(cs) : cs[i].suit = cs[j].suit
OneRank(cs) == \A i, j \in 1..Len(cs) : cs[i].rank = cs[j].rank
Consecutive(cs) ==
    \E lo \in 2..10 : ValueSet(cs) = lo..(lo + 4)
Wheel(cs) == ValueSet(cs) = {2, 3, 4, 5, 14}
Category(cs) ==
    LET straight == Consecutive(cs) \/ Wheel(cs)
        three == RanksWith(cs, 3) # {}
        pairs == Cardinality(RanksWith(cs, 2))
    IN  IF straight /\ OneSuit(cs) /\ ValueSet(cs) = 10..14 THEN "Royal Flush"
        ELSE IF straight /\ OneSuit(cs) THEN "Straight Flush"
        ELSE IF three /\ pairs = 1 /\ OneSuit(cs) THEN "Flush House"
        ELSE IF RanksWith(cs, 4) # {} THEN "Four of a Kind"
        ELSE IF three /\ pairs = 1 THEN "Full House"
        ELSE IF OneSuit(cs) THEN "Flush"
        ELSE IF straight THEN "Straight"
        ELSE IF three THEN "Three of a Kind"
        ELSE IF pairs = 2 THEN "Two Pair"
        ELSE IF pairs = 1 THEN "Pair"
        ELSE "High Card"

\* C1: a 5-card hand whose cards all have the same rank and the same suit is
\* classified "Flush Five", never "Five of a Kind".
C1_FlushFiveFirst ==
    (hand_name # "none" /\ Len(cards) = 5 /\ OneRank(cards) /\ OneSuit(cards))
        => hand_name = "Flush Five"

\* C2: get_poker_hand is total; it returns ("Invalid Hand", []) exactly when
\* the input does not have 5 cards; and for a 5-card hand whose ranks are not
\* all identical it returns the first matching category of the order Royal
\* Flush ... High Card, the wheel counting as a straight.
C2_FirstMatch ==
    hand_name # "none" =>
        /\ (hand_name = "Invalid Hand" /\ hand_values = <<>>) <=> Len(cards) # 5
        /\ (Len(cards) = 5 /\ ~OneRank(cards)) => hand_name = Category(cards)

\* C2 witness: a mixed-suit wheel classified Straight.
C2_Witness ==
    /\ hand_name = "Straight"
    /\ ValueSet(cards) = {2, 3, 4, 5, 14}
    /\ ~OneSuit(cards)

-----------------------------------------------------------------------------
(* jokers.py: damage is an int until a x1.5 effect makes it a float; every *)
(* float that occurs is a dyadic rational, kept exactly as num / den.      *)

RECURSIVE Norm(_)
Norm(q) ==
    IF q.den > 1 /\ q.num % 2 = 0 /\ q.den % 2 = 0
    THEN Norm([num |-> q.num \div 2, den |-> q.den \div 2])
    ELSE q
Rat(n) == [num |-> n, den |-> 1]
RatAdd(q, n) == Norm([num |-> q.num + n * q.den, den |-> q.den])
RatMul(q, n) == Norm([num |-> q.num * n, den |-> q.den])
RatMulHalf(q, n) == Norm([num |-> q.num * n, den |-> q.den * 2])
\* int(x) for x >= 0
RatInt(q) == q.num \div q.den

\* Keys of JOKER_DEFINITIONS
JOKER_KEYS ==
    {"blank", "joker", "archon", "ruse", "emperor", "hierophant", "fool",
     "magician", "business_card", "gemini", "necromancer"}

\* definition.get('single_use')
SingleUse(j) == j = "business_card"

\* _conditional_multiplier(valid_hands, 1.5)
ConditionalMultiplier(valid_hands, dmg, ht) ==
    IF ht \in valid_hands THEN RatMulHalf(dmg, 3) ELSE dmg

\* JOKER_DEFINITIONS[j]['effect'](hand, dmg, ht); n = len(hand)
JokerEffect(j, n, dmg, ht) ==
    CASE j = "joker" -> RatAdd(dmg, 1 * n)
      [] j = "archon" -> RatMul(dmg, n)
      [] j = "ruse" -> ConditionalMultiplier({"Pair", "Three of a Kind"}, dmg, ht)
      [] j = "emperor" -> ConditionalMultiplier({"Straight", "Flush"}, dmg, ht)
      [] j = "hierophant" ->
            ConditionalMultiplier({"Four of a Kind", "Straight Flush"}, dmg, ht)
      [] j = "business_card" -> RatMul(dmg, 3)
      [] OTHER -> dmg

\* The main pass: for jtype in jokers, unknown keys skipped
RECURSIVE MainPass(_, _, _, _)
MainPass(js, n, dmg, ht) ==
    IF js = <<>> THEN dmg
    ELSE MainPass(Tail(js), n,
                  IF Head(js) \in JOKER_KEYS THEN JokerEffect(Head(js), n, dmg, ht)
                  ELSE dmg,
                  ht)

\* consumed: the single-use jokers met by the main pass, in order
Consumed(js) == SelectSeq(js, LAMBDA j : j \in JOKER_KEYS /\ SingleUse(j))

\* duplicate_targets = [j for j in jokers if j != 'gemini'][:2]
DuplicateTargets(js) == Prefix(SelectSeq(js, LAMBDA j : j # "gemini"), 2)

\* for target in duplicate_targets: damage = JOKER_DEFINITIONS[target][...]
RECURSIVE ApplyTargets(_, _, _, _)
ApplyTargets(ts, n, dmg, ht) ==
    IF ts = <<>> THEN dmg
    ELSE ApplyTargets(Tail(ts), n, JokerEffect(Head(ts), n, dmg, ht), ht)

\* for _ in range(jokers.count('gemini')): ...
RECURSIVE GeminiPass(_, _, _, _, _)
GeminiPass(g, ts, n, dmg, ht) ==
    IF g = 0 THEN dmg
    ELSE GeminiPass(g - 1, ts, n, ApplyTargets(ts, n, dmg, ht), ht)

\* for j in consumed: jokers.remove(j)
RECURSIVE RemoveAll(_, _)
RemoveAll(js, consumed) ==
    IF consumed = <<>> THEN js
    ELSE RemoveAll(RemoveFirst(js, Head(consumed)), Tail(consumed))

\* A variant that removes the consumed jokers before the Gemini duplication.
apply_jokers_remove_early(n, base_damage, ht, js) ==
    LET main == MainPass(js, n, Rat(base_damage), ht)
        left == RemoveAll(js, Consumed(js))
        ts == DuplicateTargets(left)
    IN  [raised |-> FALSE,
         damage |-> GeminiPass(CountIn(left, "gemini"), ts, n, main, ht),
         jokers |-> left]

\* apply_jokers(hand, base_damage, hand_type, jokers): the returned damage and
\* the list as the call leaves it; JOKER_DEFINITIONS[target] raises KeyError
\* for a duplicate target that is no key, before anything is removed.
apply_jokers(n, base_damage, ht, js) ==
    LET main == MainPass(js, n, Rat(base_damage), ht)
        ts == DuplicateTargets(js)
    IN  IF InSeq(js, "gemini") /\ \E i \in 1..Len(ts) : ts[i] \notin JOKER_KEYS
        THEN [raised |-> TRUE, damage |-> main, jokers |-> js]
        ELSE [raised |-> FALSE,
              damage |-> IF InSeq(js, "gemini")
                         THEN GeminiPass(CountIn(js, "gemini"), ts, n, main, ht)
                         ELSE main,
              jokers |-> RemoveAll(js, Consumed(js))]

-----------------------------------------------------------------------------
(* SpecJokers: the player recruits passive items (Player.add_joker) and    *)
(* apply_jokers runs on the held list.                                     *)

max_jokers == 5

\* Items the player can be handed: catalogue entries and "berserker", which
\* form_hand_and_attack handles itself and the catalogue does not know.
JokerPool == {"joker", "archon", "ruse", "business_card", "gemini", "berserker"}
JokerHandLens == {2, 5}
JokerBases == {10}
JokerHandTypes == {"Pair", "High Card"}

InitJokers ==
    /\ IdlePoker /\ IdleBoss /\ IdleCards /\ IdleStatus /\ IdleAttack
    /\ jokers = <<>>
    /\ aj = [called |-> FALSE]

\* A variant of the capacity test that never finds the list full.
JokerListNeverFull(js) == FALSE

\* len(self.jokers) >= self.max_jokers
JokerListFull(js) == Len(js) >= max_jokers

\* Player.add_joker
add_joker(j) ==
    /\ jokers' = IF JokerListFull(jokers) THEN jokers ELSE Append(jokers, j)
    /\ aj' = [called |-> FALSE, op |-> "add_joker", before |-> jokers]
    /\ UNCHANGED <<boss, bx, piles, dk,
                   cards, hand_name, hand_values, effects, hp, next_id, st,
                   enemy, pl, atk>>

ApplyJokers(n, base, ht) ==
    LET r == apply_jokers(n, base, ht, jokers)
    IN  /\ jokers' = r.jokers
        /\ aj' = [called |-> TRUE, n |-> n, base |-> base, ht |-> ht,
                  before |-> jokers, raised |-> r.raised, damage |-> r.damage]
        /\ UNCHANGED <<boss, bx, piles, dk,
                       cards, hand_name, hand_values, effects, hp, next_id,
                       st, enemy, pl, atk>>

\* Player.remove_joker: the first occurrence of a held item is dropped
remove_joker(j) ==
    /\ jokers' = IF InSeq(jokers, j) THEN RemoveFirst(jokers, j) ELSE jokers
    /\ aj' = [called |-> FALSE, op |-> "remove_joker", len |-> Len(jokers),
              removed |-> InSeq(jokers, j)]
    /\ UNCHANGED <<boss, bx, piles, dk,
                   cards, hand_name, hand_values, effects, hp, next_id, st,
                   enemy, pl, atk>>

NextJokers ==
    \/ \E j \in JokerPool : add_joker(j)
    \/ \E j \in JokerPool : remove_joker(j)
    \/ \E n \in JokerHandLens, base \in JokerBases, ht \in JokerHandTypes :
          ApplyJokers(n, base, ht)

SpecJokers == InitJokers /\ [][NextJokers]_vars

\* The effects an attack applies, in order: the held list, then, once per held
\* Gemini, the first two items that are not Gemini.
RECURSIVE Repeat(_, _)
Repeat(s, k) == IF k = 0 THEN <<>> ELSE s \o Repeat(s, k - 1)
NonGemini(js) == SelectSeq(js, LAMBDA j : j # "gemini")
EffectOrder(js) ==
    js \o Repeat(Prefix(NonGemini(js), 2), CountIn(js, "gemini"))
RECURSIVE FoldEffects(_, _, _, _)
FoldEffects(es, n, dmg, ht) ==
    IF es = <<>> THEN dmg
    ELSE FoldEffects(Tail(es), n,
                     IF Head(es) \in JOKER_KEYS
                     THEN JokerEffect(Head(es), n, dmg, ht) ELSE dmg, ht)

\* C4: every apply_jokers call re-applies, once per held Gemini and after the
\* main pass over the held list, the effects of the first two non-Gemini
\* items in acquisition order; [joker, archon, gemini] on a 5-card hand with
\* base 10 gives 400.
C4_GeminiDuplicates ==
    aj.called =>
        /\ ~aj.raised
        /\ aj.damage = FoldEffects(EffectOrder(aj.before), aj.n, Rat(aj.base), aj.ht)
        /\ (aj.before = <<"joker", "archon", "gemini">> /\ aj.n = 5 /\ aj.base = 10)
              => aj.damage = Rat(400)

\* What holds of C4: the calls that return have duplicated as stated.
C4_GeminiDuplicatesOnReturn ==
    (aj.called /\ ~aj.raised) =>
        /\ aj.damage = FoldEffects(EffectOrder(aj.before), aj.n, Rat(aj.base), aj.ht)
        /\ (aj.before = <<"joker", "archon", "gemini">> /\ aj.n = 5 /\ aj.base = 10)
              => aj.damage = Rat(400)

\* C4 witness: the test's list has been applied.
C4_Witness ==
    /\ aj.called /\ ~aj.raised
    /\ aj.before = <<"joker", "archon", "gemini">> /\ aj.n = 5
    /\ aj.damage = Rat(400)

-----------------------------------------------------------------------------
(* status_effects.py.  A StatusEffect object is a record; id is the        *)
(* object's identity (list.remove and the loops work on objects).  amount  *)
(* is HealEffect.amount, ShieldEffect.amount, PoisonEffect.damage_per_turn,*)
(* and, in tenths, DamageBuffEffect.multiplier and                         *)
(* DamageReductionEffect.reduction.                                        *)

ShieldDuration == 999
ReductionDuration == 999

Effect(id, kind, duration, amount) ==
    [id |-> id, kind |-> kind, duration |-> duration, active |-> TRUE,
     amount |-> amount]
StunEffect(id) == Effect(id, "Stun", 1, 0)
HealEffect(id, amount) == Effect(id, "Heal", 0, amount)
DamageBuffEffect(id, tenths) == Effect(id, "DamageBuff", 1, tenths)
ShieldEffect(id, amount) == Effect(id, "Shield", ShieldDuration, amount)
DamageReductionEffect(id, tenths) ==
    Effect(id, "DamageReduction", ReductionDuration, tenths)
PoisonEffect(id, dpt, duration) == Effect(id, "Poison", duration, dpt)

\* int(x * t/10) for x >= 0 and the multipliers 1.3, 1.5, 2.0, 4.0, 0.2, whose
\* float products truncate like the exact ones for x <= 20000
TruncTenths(x, t) == (x * t) \div 10

\* The x <= 400 for which the float product x * (1 - 0.3) lies just below
\* the exact 7x/10, an integer, and truncates to one less.
FloatShort07 == {90, 170, 180, 330, 340, 350, 360}

\* DamageReductionEffect.reduce_damage: int(damage * (1 - self.reduction))
reduce_damage(e, damage) ==
    ((damage * (10 - e.amount)) \div 10)
        - (IF e.amount = 3 /\ damage \in FloatShort07 THEN 1 ELSE 0)

\* effect.apply(target): only HealEffect changes the target
ApplyEffect(e, h, max_hp) ==
    IF e.kind = "Heal" THEN Min2(max_hp, h + e.amount) ELSE h

add_effect_keep_all(effs, e) == Append(effs, e)

\* StatusEffectManager.add_effect: the list after the call
add_effect(effs, e) ==
    Append(IF e.kind # "Poison"
           THEN SelectSeq(effs, LAMBDA x : x.kind # e.kind)
           ELSE effs,
           e)

\* One iteration of tick_effects' loop on effect e: tick, then reduce_duration
TickOne(e, h) ==
    IF ~e.active THEN [e |-> e, hp |-> h, expired |-> FALSE]
    ELSE LET h2 == IF e.kind = "Poison" THEN Max2(0, h - e.amount) ELSE h
             d2 == e.duration - 1
         IN  [e |-> [e EXCEPT !.duration = d2, !.active = (d2 > 0)],
              hp |-> h2, expired |-> (d2 <= 0)]

RECURSIVE TickLoop(_, _, _, _)
TickLoop(effs, i, h, expired) ==
    IF i > Len(effs) THEN [effects |-> effs, hp |-> h, expired |-> expired]
    ELSE LET r == TickOne(effs[i], h)
         IN  TickLoop([effs EXCEPT ![i] = r.e], i + 1, r.hp,
                      IF r.expired THEN expired \cup {r.e.id} ELSE expired)

tick_effects_shielded(effs, h) ==
    LET r == TickLoop(effs, 1, h, {})
        shielded == \E i \in 1..Len(effs) : effs[i].kind = "Shield"
    IN  [effects |-> SelectSeq(r.effects, LAMBDA x : x.id \notin r.expired),
         hp |-> IF shielded THEN h ELSE r.hp]

\* StatusEffectManager.tick_effects
tick_effects(effs, h) ==
    LET r == TickLoop(effs, 1, h, {})
    IN  [effects |-> SelectSeq(r.effects, LAMBDA x : x.id \notin r.expired),
         hp |-> r.hp]

\* StatusEffectManager.has_effect
has_effect(effs, kind) ==
    \E i \in 1..Len(effs) : effs[i].kind = kind /\ effs[i].active

RECURSIVE OutgoingLoop(_, _, _)
OutgoingLoop(effs, i, modified) ==
    IF i > Len(effs) THEN [effects |-> effs, damage |-> modified]
    ELSE IF effs[i].kind = "DamageBuff" /\ effs[i].active
    THEN OutgoingLoop([effs EXCEPT ![i].active = FALSE], i + 1,
                      TruncTenths(modified, effs[i].amount))
    ELSE OutgoingLoop(effs, i + 1, modified)

\* StatusEffectManager.modify_outgoing_damage
modify_outgoing_damage(effs, damage) == OutgoingLoop(effs, 1, damage)

RECURSIVE ReductionLoop(_, _, _)
ReductionLoop(effs, i, modified) ==
    IF i > Len(effs) THEN modified
    ELSE ReductionLoop(effs, i + 1,
            IF effs[i].kind = "DamageReduction" /\ effs[i].active
            THEN reduce_damage(effs[i], modified) ELSE modified)

\* A variant that leaves a depleted shield active.
absorb_damage_keep(e, damage) ==
    LET absorbed == Min2(e.amount, damage)
    IN  [e |-> [e EXCEPT !.amount = e.amount - absorbed],
         remaining |-> damage - absorbed]

\* ShieldEffect.absorb_damage
absorb_damage(e, damage) ==
    LET absorbed == Min2(e.amount, damage)
        left == e.amount - absorbed
    IN  [e |-> [e EXCEPT !.amount = left,
                         !.active = IF left <= 0 THEN FALSE ELSE e.active],
         remaining |-> damage - absorbed]

\* The shield loop removes from the list it iterates: after a removal at
\* position i the iterator moves on to position i + 1 of the shortened list.
RECURSIVE ShieldLoop(_, _, _)
ShieldLoop(effs, i, modified) ==
    IF i > Len(effs) THEN [effects |-> effs, damage |-> modified]
    ELSE IF effs[i].kind = "Shield" /\ effs[i].active
    THEN LET r == absorb_damage(effs[i], modified)
         IN  IF ~r.e.active
             THEN ShieldLoop(SelectSeq(effs, LAMBDA x : x.id # r.e.id), i + 1,
                             r.remaining)
             ELSE ShieldLoop([effs EXCEPT ![i] = r.e], i + 1, r.remaining)
    ELSE ShieldLoop(effs, i + 1, modified)

\* A variant that lets the shields absorb before the reduction is applied.
modify_incoming_damage_shield_first(effs, damage) ==
    LET r == ShieldLoop(effs, 1, damage)
    IN  [effects |-> r.effects, damage |-> ReductionLoop(effs, 1, r.damage)]

\* StatusEffectManager.modify_incoming_damage
modify_incoming_damage(effs, damage) ==
    ShieldLoop(effs, 1, ReductionLoop(effs, 1, damage))

-----------------------------------------------------------------------------
(* entities/enemy.py                                                       *)

\* Enemy.__init__ from an ENEMY_TEMPLATES entry
Enemy(hp0, defense) ==
    [hp |-> hp0, max_hp |-> hp0, defense |-> defense, effects |-> <<>>]

\* ENEMY_TEMPLATES: Skeleton
EnemyTemplates == {Enemy(40, 1)}

\* Enemy.take_damage
enemy_take_damage(e, dmg) ==
    LET r == modify_incoming_damage(e.effects, dmg)
        actual == Max2(0, r.damage - e.defense)
    IN  [enemy |-> [e EXCEPT !.effects = r.effects, !.hp = Max2(0, e.hp - actual)],
         passed |-> r.damage, actual |-> actual]

-----------------------------------------------------------------------------
(* SpecStatus: an enemy's status effect registry under add_effect,         *)
(* Enemy.start_turn (the status tick), modify_outgoing_damage and          *)
(* Enemy.take_damage.  st observes the last call (op, arg, result, the     *)
(* registry and hp before it) and keeps, per effect created, what it was   *)
(* created with and how many ticks have run since (log), and the number of *)
(* modify_outgoing_damage calls since the last DamageBuff was added        *)
(* (since_buff, -1 before any, counted up to 2).  steps counts the ticks   *)
(* and damage calls made, which the model bounds.                          *)

MaxEffects == 2
MaxSteps == 4

\* The effects the program creates (card_abilities.py, boss_encounters.py),
\* and a 2-tick poison.
NewEffects(id) ==
    {StunEffect(id), HealEffect(id, 5), DamageBuffEffect(id, 13),
     ShieldEffect(id, 20), DamageReductionEffect(id, 3),
     PoisonEffect(id, 3, 3), PoisonEffect(id, 5, 2)}
Hits == {15, 25, 90}
Outgoing == {7}

InitStatus ==
    /\ IdlePoker /\ IdleBoss /\ IdleCards /\ IdleJokers
    /\ effects = <<>> /\ hp = 0
    /\ pl = [turn |-> 0] /\ atk = [called |-> FALSE]
    /\ enemy \in EnemyTemplates
    /\ next_id = 0
    /\ st = [op |-> "init", arg |-> 0, result |-> 0, pre |-> <<>>, pre_hp |-> 0,
             log |-> <<>>, steps |-> 0, since_buff |-> -1]

StatusFrame == UNCHANGED <<boss, bx, piles, dk,
                           cards, hand_name, hand_values, jokers, aj, effects,
                           hp, pl, atk>>

\* status_effects.add_effect(effect, enemy)
AddEffect ==
    /\ next_id < MaxEffects
    /\ \E e \in NewEffects(next_id + 1) :
          /\ enemy' = [enemy EXCEPT !.effects = add_effect(enemy.effects, e),
                                    !.hp = ApplyEffect(e, enemy.hp, enemy.max_hp)]
          /\ st' = [st EXCEPT !.op = "add", !.arg = e.id, !.result = 0,
                              !.pre = enemy.effects, !.pre_hp = enemy.hp,
                              !.log = Append(st.log, [kind |-> e.kind,
                                                      amount |-> e.amount,
                                                      n |-> e.duration,
                                                      ticks |-> 0]),
                              !.since_buff = IF e.kind = "DamageBuff" THEN 0
                                             ELSE st.since_buff]
    /\ next_id' = next_id + 1
    /\ StatusFrame

\* Enemy.start_turn
StartTurn ==
    /\ st.steps < MaxSteps
    /\ LET r == tick_effects(enemy.effects, enemy.hp)
       IN  /\ enemy' = [enemy EXCEPT !.effects = r.effects, !.hp = r.hp]
           /\ st' = [st EXCEPT !.op = "tick", !.arg = 0, !.result = 0,
                               !.pre = enemy.effects, !.pre_hp = enemy.hp,
                               !.steps = st.steps + 1,
                               !.log = [i \in 1..Len(st.log) |->
                                          [st.log[i] EXCEPT !.ticks = @ + 1]]]
    /\ UNCHANGED next_id
    /\ StatusFrame

\* status_effects.modify_outgoing_damage(damage)
ModifyOutgoing(d) ==
    /\ st.steps < MaxSteps
    /\ LET r == modify_outgoing_damage(enemy.effects, d)
       IN  /\ enemy' = [enemy EXCEPT !.effects = r.effects]
           /\ st' = [st EXCEPT !.op = "outgoing", !.arg = d, !.result = r.damage,
                               !.pre = enemy.effects, !.pre_hp = enemy.hp,
                               !.steps = st.steps + 1,
                               !.since_buff = IF st.since_buff \in {-1, 2}
                                              THEN st.since_buff
                                              ELSE st.since_buff + 1]
    /\ UNCHANGED next_id
    /\ StatusFrame

\* Enemy.take_damage(dmg)
TakeDamage(d) ==
    /\ st.steps < MaxSteps
    /\ LET r == enemy_take_damage(enemy, d)
       IN  /\ enemy' = r.enemy
           /\ st' = [st EXCEPT !.op = "incoming", !.arg = d, !.result = r.passed,
                               !.pre = enemy.effects, !.pre_hp = enemy.hp,
                               !.steps = st.steps + 1]
    /\ UNCHANGED next_id
    /\ StatusFrame

NextStatus ==
    \/ AddEffect
    \/ StartTurn
    \/ \E d \in Outgoing : ModifyOutgoing(d)
    \/ \E d \in Hits : TakeDamage(d)

SpecStatus == InitStatus /\ [][NextStatus]_vars

\* Ghost readings of the registry and the log
EntriesOf(effs, kind) == {i \in 1..Len(effs) : effs[i].kind = kind}
EntriesWithId(effs, id) == {i \in 1..Len(effs) : effs[i].id = id}
LoggedOf(kind) == {i \in 1..Len(st.log) : st.log[i].kind = kind}
LastAdded(kind) ==
    CHOOSE i \in LoggedOf(kind) : \A j \in LoggedOf(kind) : j <= i
ReplacedKinds == {"Stun", "Shield", "DamageBuff", "DamageReduction"}

\* C6: the registry holds at most one effect of each non-Poison kind, the
\* most recently added one (present right after its add_effect), and every
\* added Poison that has run fewer ticks than its duration is present as its
\* own entry.
C6_ReplaceExceptPoison ==
    /\ \A k \in ReplacedKinds :
          /\ Cardinality(EntriesOf(enemy.effects, k)) <= 1
          /\ \A i \in EntriesOf(enemy.effects, k) :
                enemy.effects[i].id = LastAdded(k)
    /\ st.op = "add" =>
          /\ enemy.effects # <<>>
          /\ enemy.effects[Len(enemy.effects)].id = st.arg
    /\ \A p \in LoggedOf("Poison") :
          st.log[p].ticks < st.log[p].n =>
              Cardinality(EntriesWithId(enemy.effects, p)) = 1

\* C6 witness: a second Shield was added and only it is in the registry.
C6_Witness ==
    /\ st.op = "add" /\ st.arg = 2
    /\ LoggedOf("Shield") = {1, 2}
    /\ Len(enemy.effects) = 1 /\ enemy.effects[1].id = 2

\* C6 witness of the stacking: two Poisons side by side.
C6_WitnessPoison ==
    /\ LoggedOf("Poison") = {1, 2}
    /\ Len(enemy.effects) = 2

ActiveShields(effs) ==
    {i \in 1..Len(effs) : effs[i].kind = "Shield" /\ effs[i].active}

\* C7: with a Shield(s) and no damage reduction, a hit d passes max(0, d - s)
\* through modify_incoming_damage, leaves the shield at max(0, s - d), and the
\* shield is removed exactly when that is 0.
C7_ShieldAbsorbs ==
    (/\ st.op = "incoming"
     /\ ActiveShields(st.pre) # {}
     /\ EntriesOf(st.pre, "DamageReduction") = {}) =>
        LET sh == st.pre[CHOOSE i \in ActiveShields(st.pre) : TRUE]
            s == sh.amount
            d == st.arg
        IN  /\ st.result = Max2(0, d - s)
            /\ (s - d > 0) =>
                  \E i \in 1..Len(enemy.effects) :
                      /\ enemy.effects[i].id = sh.id
                      /\ enemy.effects[i].amount = s - d
            /\ (s - d <= 0) => EntriesOf(enemy.effects, "Shield") = {}

\* C7 witness: Shield(20) hit by 15: nothing passes and Shield(5) remains.
C7_Witness ==
    /\ st.op = "incoming" /\ st.arg = 15 /\ st.result = 0
    /\ Len(st.pre) = 1 /\ st.pre[1].kind = "Shield" /\ st.pre[1].amount = 20
    /\ Len(enemy.effects) = 1 /\ enemy.effects[1].amount = 5

\* C7 witness of the depletion: Shield(20) hit by 25: 5 passes, shield removed.
C7_WitnessDepleted ==
    /\ st.op = "incoming" /\ st.arg = 25 /\ st.result = 5
    /\ Len(st.pre) = 1 /\ st.pre[1].kind = "Shield" /\ st.pre[1].amount = 20
    /\ enemy.effects = <<>>

\* C8: a DamageBuff(m) multiplies exactly one outgoing-damage computation: the
\* first modify_outgoing_damage call after it is added returns the damage
\* multiplied by m (truncated), every other call returns it unchanged.
C8_BuffAppliesOnce ==
    st.op = "outgoing" =>
        IF st.since_buff = 1
        THEN st.result = TruncTenths(st.arg, st.log[LastAdded("DamageBuff")].amount)
        ELSE st.result = st.arg

\* The part of C8 that holds: a buff multiplies at most one computation, and
\* the first call after the add when no status tick ran in between.
C8_BuffAtMostOnce ==
    st.op = "outgoing" =>
        /\ st.since_buff # 1 => st.result = st.arg
        /\ (st.since_buff = 1 /\ st.log[LastAdded("DamageBuff")].ticks = 0) =>
              st.result = TruncTenths(st.arg, st.log[LastAdded("DamageBuff")].amount)

RECURSIVE SumAmounts(_)
SumAmounts(S) ==
    IF S = {} THEN 0
    ELSE LET i == CHOOSE x \in S : TRUE
         IN  st.log[i].amount + SumAmounts(S \ {i})

\* C10: a Poison(d, n) takes exactly d from hp (floored at 0) on each of the
\* n status ticks after it is added, whatever the defense, Shield or
\* DamageReduction (which keep their values), and is in the registry until
\* the n-th tick removes it; stacked Poisons tick and expire independently.
C10_PoisonTicks ==
    /\ \A p \in LoggedOf("Poison") :
          (EntriesWithId(enemy.effects, p) # {}) <=> (st.log[p].ticks < st.log[p].n)
    /\ st.op = "tick" =>
          /\ enemy.hp = Max2(0, st.pre_hp - SumAmounts(
                {p \in LoggedOf("Poison") : st.log[p].ticks <= st.log[p].n}))
          /\ \A i \in EntriesOf(st.pre, "Shield") \cup EntriesOf(st.pre, "DamageReduction") :
                \E j \in 1..Len(enemy.effects) :
                    /\ enemy.effects[j].id = st.pre[i].id
                    /\ enemy.effects[j].amount = st.pre[i].amount

\* C10 witness: Poison(5, 2) and Poison(3, 3) stacked; the second tick takes
\* 8 and removes only the 2-tick poison.
C10_Witness ==
    /\ st.op = "tick"
    /\ LoggedOf("Poison") = {1, 2}
    /\ st.log[1].n = 2 /\ st.log[1].ticks = 2 /\ st.log[2].ticks = 2
    /\ enemy.hp = st.pre_hp - 8
    /\ Len(enemy.effects) = 1 /\ enemy.effects[1].id = 2

\* C10 witness of the bypass: a poison tick beside a Shield.
C10_WitnessShield ==
    /\ st.op = "tick"
    /\ EntriesOf(st.pre, "Shield") # {} /\ EntriesOf(st.pre, "Poison") # {}
    /\ enemy.hp < st.pre_hp

\* C11: with a DamageReduction(f) and a Shield(s), a hit d is first reduced to
\* trunc(d * (1 - f)) (the float product), then the shield absorbs: the value
\* passed on is max(0, reduced - s) and the shield loses min(s, reduced); the
\* enemy's defense is subtracted from what passed, and hp stays at 0 or above.
C11_ReductionBeforeShield ==
    /\ enemy.hp >= 0
    /\ (/\ st.op = "incoming"
        /\ Cardinality(ActiveShields(st.pre)) = 1
        /\ Cardinality(EntriesOf(st.pre, "DamageReduction")) = 1) =>
          LET sh == st.pre[CHOOSE i \in ActiveShields(st.pre) : TRUE]
              dr == st.pre[CHOOSE i \in EntriesOf(st.pre, "DamageReduction") : TRUE]
              d == st.arg
              reduced == ((d * (10 - dr.amount)) \div 10)
                           - (IF dr.amount = 3 /\ d \in FloatShort07 THEN 1 ELSE 0)
              lost == Min2(sh.amount, reduced)
          IN  /\ st.result = Max2(0, reduced - sh.amount)
              /\ (sh.amount - lost > 0) =>
                    \E i \in 1..Len(enemy.effects) :
                        /\ enemy.effects[i].id = sh.id
                        /\ enemy.effects[i].amount = sh.amount - lost
              /\ (sh.amount - lost = 0) => EntriesOf(enemy.effects, "Shield") = {}
              /\ enemy.hp = Max2(0, st.pre_hp - Max2(0, st.result - enemy.defense))

\* C11 witness: DamageReduction(0.3) and Shield(20) hit by 25: 17 reaches the
\* shield, nothing passes and Shield(3) remains.
C11_Witness ==
    /\ st.op = "incoming" /\ st.arg = 25 /\ st.result = 0
    /\ Cardinality(EntriesOf(st.pre, "DamageReduction")) = 1
    /\ \E i \in ActiveShields(st.pre) : st.pre[i].amount = 20
    /\ \E i \in 1..Len(enemy.effects) :
          enemy.effects[i].kind = "Shield" /\ enemy.effects[i].amount = 3

\* C11 witness of the defense and the floor: the same pair hit by 90: 62
\* reaches the shield, 42 passes, 41 after defense empties the 40 hp.
C11_WitnessFloor ==
    /\ st.op = "incoming" /\ st.arg = 90 /\ st.result = 42
    /\ Cardinality(EntriesOf(st.pre, "DamageReduction")) = 1
    /\ st.pre_hp = 40 /\ enemy.hp = 0

-----------------------------------------------------------------------------
(* card_abilities.py: apply_card_combination_abilities.  w is the world    *)
(* the call may change: the player's registry, hp, items and max_discards, *)
(* the enemy, and the next effect identity.  roll is the outcome of the    *)
(* call's random draw (the chance succeeded, or the largest bonus).        *)

\* TarotCard.on_use(context) of tarot.py: only The Moon changes the combat
UseTarot(key, h, max_hp) == IF key = "moon" THEN Min2(max_hp, h + 10) ELSE h

RECURSIVE UseAllTarots(_, _, _)
UseAllTarots(items, h, max_hp) ==
    IF items = <<>> THEN h
    ELSE UseAllTarots(Tail(items), UseTarot(Head(items), h, max_hp), max_hp)

\* player_effects.add_effect(effect, player)
PlayerAdds(w, e) ==
    [w EXCEPT !.effects = add_effect(w.effects, e),
              !.hp = ApplyEffect(e, w.hp, w.max_hp),
              !.next_id = e.id]

\* enemy_effects.add_effect(effect, enemy)
EnemyAdds(w, e) ==
    [w EXCEPT !.enemy.effects = add_effect(w.enemy.effects, e),
              !.enemy.hp = ApplyEffect(e, w.enemy.hp, w.enemy.max_hp),
              !.next_id = e.id]

\* A variant that poisons the player as much as the enemy.
PoisonBothAlike(w, base) ==
    LET poison_damage == Max2(3, base \div 10)
        w1 == EnemyAdds(w, PoisonEffect(w.next_id + 1, poison_damage, 3))
    IN  PlayerAdds(w1, PoisonEffect(w1.next_id + 1, poison_damage, 3))

\* Three of a Kind: poison on the enemy, half of it on the player
PoisonBoth(w, base) ==
    LET poison_damage == Max2(3, base \div 10)
        w1 == EnemyAdds(w, PoisonEffect(w.next_id + 1, poison_damage, 3))
    IN  PlayerAdds(w1, PoisonEffect(w1.next_id + 1, poison_damage \div 2, 3))

ActivateItems(w) ==
    [w EXCEPT !.hp = UseAllTarots(w.items, w.hp, w.max_hp), !.items = <<>>]

\* Straight: player_effects.add_effect(DamageBuffEffect(1.3), player)
StraightAbility(w) == PlayerAdds(w, DamageBuffEffect(w.next_id + 1, 13))

apply_card_combination_abilities(hand_type, w, base, roll) ==
    CASE hand_type = "High Card" ->
            [w |-> IF roll THEN EnemyAdds(w, StunEffect(w.next_id + 1)) ELSE w,
             mult |-> 1]
      [] hand_type = "Pair" ->
            [w |-> PlayerAdds(w, HealEffect(w.next_id + 1, base \div 2)),
             mult |-> 1]
      [] hand_type = "Two Pair" -> [w |-> w, mult |-> IF roll THEN 2 ELSE 1]
      [] hand_type = "Three of a Kind" -> [w |-> PoisonBoth(w, base), mult |-> 1]
      [] hand_type = "Straight" -> [w |-> StraightAbility(w), mult |-> 1]
      [] hand_type = "Flush" ->
            [w |-> PlayerAdds(w, ShieldEffect(w.next_id + 1, 30)), mult |-> 1]
      [] hand_type = "Full House" ->
            [w |-> PlayerAdds(w, DamageReductionEffect(w.next_id + 1, 3)),
             mult |-> 1]
      [] hand_type = "Four of a Kind" -> [w |-> ActivateItems(w), mult |-> 1]
      [] hand_type = "Straight Flush" ->
            [w |-> [w EXCEPT !.max_discards = @ + 1], mult |-> 1]
      [] hand_type = "Royal Flush" -> [w |-> w, mult |-> 4]
      [] hand_type = "Five of a Kind" ->
            [w |-> ActivateItems(PoisonBoth(
                      PlayerAdds(w, HealEffect(w.next_id + 1, base \div 2)), base)),
             mult |-> 1]
      [] hand_type = "Flush House" ->
            LET w1 == PlayerAdds(w, ShieldEffect(w.next_id + 1, 30))
            IN  [w |-> PlayerAdds(w1, DamageReductionEffect(w1.next_id + 1, 3)),
                 mult |-> 1]
      [] hand_type = "Flush Five" ->
            [w |-> [w EXCEPT !.enemy = enemy_take_damage(w.enemy,
                        IF roll THEN TruncTenths(w.enemy.max_hp, 2) ELSE 0).enemy],
             mult |-> 1]
      [] OTHER -> [w |-> w, mult |-> 1]

-----------------------------------------------------------------------------
(* entities/player.py: form_hand_and_attack, from the selected cards on.   *)

\* The partial combinations of a selection that is not 5 cards
PartialHand(selected) ==
    LET counts == RankCounts(SortedValues(selected))
    IN  IF counts = <<4>> THEN "Four of a Kind"
        ELSE IF counts = <<3, 1>> THEN "Three of a Kind"
        ELSE IF counts = <<2, 2>> THEN "Two Pair"
        ELSE IF counts = <<2, 1>> \/ counts = <<2>> THEN "Pair"
        ELSE IF Len(selected) = 1 \/ counts = <<1>> THEN "High Card"
        ELSE "Strike"

HandType(selected) ==
    IF Len(selected) = 5
    THEN IF get_poker_hand(selected).name = "Invalid Hand" THEN "Strike"
         ELSE get_poker_hand(selected).name
    ELSE PartialHand(selected)

\* A variant whose default for a hand outside the table is 0.
HandMultDefaultZero(selected) ==
    IF Len(selected) = 5
    THEN hand_multiplier(get_poker_hand(selected).name)
    ELSE IF HAND_MULTIPLIERS(PartialHand(selected)) = -1 THEN 0
         ELSE HAND_MULTIPLIERS(PartialHand(selected))

\* mult: hand_multiplier for 5 cards, HAND_MULTIPLIERS.get(hand_type, 1) else
HandMult(selected) ==
    IF Len(selected) = 5
    THEN hand_multiplier(get_poker_hand(selected).name)
    ELSE IF HAND_MULTIPLIERS(PartialHand(selected)) = -1 THEN 1
         ELSE HAND_MULTIPLIERS(PartialHand(selected))

BaseDamage(selected) ==
    SumSeq([i \in 1..Len(selected) |-> CardValue(selected[i])]) * HandMult(selected)

\* int(total_damage * (1.0 + 0.05 * len(items))): exact for up to 2 items and
\* totals up to 20000
ShamanScaled(total, n_items) == (total * (100 + 5 * n_items)) \div 100

\* The berserker bonus (combat_turn * 2) and the shaman multiplier, then the
\* int() handed to modify_outgoing_damage
ContextDamage(js, turn, n_items, after_jokers) ==
    LET berserk == IF InSeq(js, "berserker") THEN RatAdd(after_jokers, turn * 2)
                   ELSE after_jokers
    IN  IF InSeq(js, "shaman") THEN ShamanScaled(RatInt(berserk), n_items)
        ELSE RatInt(berserk)

\* The executioner's bonus: int(enemy.hp * executioner_percent)
ExecutionBonus(js, required, hand_type, with_enemy, enemy_hp) ==
    IF with_enemy /\ InSeq(js, "executioner") /\ required # "none"
       /\ hand_type = required
    THEN TruncTenths(enemy_hp, 2) ELSE 0

\* A variant that adds the execution bonus after the ability multiplier.
FinalDamageBonusLast(total, bonus, mult, perm) ==
    TruncTenths(total * mult + bonus, perm)

\* total += bonus; total = int(total * damage_multiplier);
\* total = int(total * permanent_damage_multiplier); mult is 1, 2 or 4
FinalDamage(total, bonus, mult, perm) ==
    TruncTenths((total + bonus) * mult, perm)

\* form_hand_and_attack on a non-empty valid selection.  p: the player's
\* fields; js, effs, h: the jokers, registry and hp; en: the enemy passed
\* (used when with_enemy); nid: the last effect identity handed out.
form_hand_and_attack(p, js, effs, h, en, nid, selected, with_enemy, roll) ==
    LET hand_type == HandType(selected)
        base_damage == BaseDamage(selected)
        r == apply_jokers(Len(selected), base_damage, hand_type, js)
        pre_status == ContextDamage(r.jokers, p.turn, Len(p.items), r.damage)
        out == modify_outgoing_damage(effs, pre_status)
        w0 == [effects |-> out.effects, hp |-> h, max_hp |-> p.max_hp,
               items |-> p.items, max_discards |-> p.max_discards,
               enemy |-> en, next_id |-> nid]
        ability == IF with_enemy /\ hand_type # "Strike"
                   THEN apply_card_combination_abilities(hand_type, w0,
                                                         base_damage, roll)
                   ELSE [w |-> w0, mult |-> 1]
        bonus == ExecutionBonus(r.jokers, p.required, hand_type, with_enemy,
                                ability.w.enemy.hp)
    IN  IF r.raised
        THEN [raised |-> TRUE, hand_type |-> hand_type, base |-> base_damage,
              jokers |-> js, w |-> [w0 EXCEPT !.effects = effs],
              pre_status |-> 0, after_status |-> 0, bonus |-> 0, mult |-> 1,
              damage |-> 0]
        ELSE [raised |-> FALSE, hand_type |-> hand_type, base |-> base_damage,
              jokers |-> r.jokers, w |-> ability.w,
              pre_status |-> pre_status, after_status |-> out.damage,
              bonus |-> bonus, mult |-> ability.mult,
              damage |-> FinalDamage(out.damage, bonus, ability.mult, p.perm)]

-----------------------------------------------------------------------------
(* SpecAttack: a combat seen from the player.  The player attacks with a   *)
(* selection of cards (form_hand_and_attack, with or without the enemy     *)
(* passed), the caller applies the returned damage to the enemy            *)
(* (Enemy.take_damage) and the player's turn starts (Player.start_turn).   *)
(* effects and hp are the player's registry and hp.  atk observes the last *)
(* attack: its inputs (selection, the player, jokers, registry and enemy   *)
(* hp before it), the stages of its damage, whether it granted the         *)
(* Straight's buff (granted), whether the attack before it did             *)
(* (prev_granted) with the number of start_turn calls in between           *)
(* (ticks_between); ticks counts the start_turn calls since, count the     *)
(* attacks made, applied whether the damage has reached the enemy.         *)

MaxAttacks == 2
MaxTurns == 2

\* Selections of cards the player attacks with
Straight5 == <<Card("Hearts", "2"), Card("Spades", "3"), Card("Hearts", "4"),
               Card("Hearts", "5"), Card("Hearts", "6")>>
TwoPair5 == <<Card("Hearts", "2"), Card("Spades", "2"), Card("Hearts", "3"),
              Card("Spades", "3"), Card("Hearts", "4")>>
RoyalFlush5 == <<Card("Hearts", "10"), Card("Hearts", "J"), Card("Hearts", "Q"),
                 Card("Hearts", "K"), Card("Hearts", "A")>>
Pair2 == <<Card("Hearts", "5"), Card("Spades", "5")>>
Strike2 == <<Card("Hearts", "5"), Card("Spades", "6")>>
ThreeOfAKind4 == <<Card("Hearts", "2"), Card("Spades", "2"),
                   Card("Clubs", "2"), Card("Hearts", "4")>>
ThreeKings4 == <<Card("Hearts", "K"), Card("Spades", "K"), Card("Clubs", "K"),
                 Card("Hearts", "A")>>
Selections == {Straight5, TwoPair5, RoyalFlush5, Pair2, Strike2,
               ThreeOfAKind4, ThreeKings4}

\* The hands whose ability draws a random number
DrawsChance(hand_type) == hand_type \in {"High Card", "Two Pair", "Flush Five"}

PlayerMaxHp == 100

\* The player when a combat starts (start_combat: combat_turn 0, no effects,
\* executioner_required_hand drawn): jokers held, tarot items held, the
\* required hand, permanent_damage_multiplier in tenths (1.0, or 1.5 after
\* the reveal)
Build(js, items, required, perm) ==
    [jokers |-> js,
     pl |-> [turn |-> 0, items |-> items, required |-> required, perm |-> perm,
             max_discards |-> 3, max_hp |-> PlayerMaxHp]]

Builds ==
    {Build(<<>>, <<>>, "Straight", 10),
     Build(<<"joker", "berserker", "shaman", "executioner">>, <<"moon">>,
           "Two Pair", 15),
     Build(<<"archon", "business_card", "executioner">>, <<>>,
           "Royal Flush", 15),
     Build(<<"ruse", "executioner">>, <<"sun">>, "Pair", 10),
     Build(<<"berserker", "joker", "gemini">>, <<>>, "Two Pair", 10)}

InitAttack ==
    /\ IdlePoker /\ IdleBoss /\ IdleCards
    /\ aj = [called |-> FALSE] /\ st = [op |-> "none"]
    /\ \E b \in Builds : jokers = b.jokers /\ pl = b.pl
    /\ effects = <<>>
    /\ hp = PlayerMaxHp
    /\ next_id = 0
    /\ enemy \in EnemyTemplates
    /\ atk = [called |-> FALSE, count |-> 0, ticks |-> 0, granted |-> FALSE,
              applied |-> TRUE]

AttackFrame == UNCHANGED <<boss, bx, piles, dk,
                           cards, hand_name, hand_values, aj, st>>

\* Player.form_hand_and_attack(indices, enemy) / (indices)
Attack(selected, with_enemy, roll) ==
    /\ atk.count < MaxAttacks
    /\ \E r \in {form_hand_and_attack(pl, jokers, effects, hp, enemy, next_id,
                                      selected, with_enemy, roll)} :
           /\ jokers' = r.jokers
           /\ effects' = r.w.effects
           /\ hp' = r.w.hp
           /\ enemy' = r.w.enemy
           /\ next_id' = r.w.next_id
           /\ pl' = [pl EXCEPT !.items = r.w.items,
                               !.max_discards = r.w.max_discards]
           /\ atk' = [called |-> TRUE, count |-> atk.count + 1, ticks |-> 0,
                      applied |-> r.raised,
                      raised |-> r.raised, selected |-> selected,
                      with_enemy |-> with_enemy, roll |-> roll,
                      hand_type |-> r.hand_type, base |-> r.base,
                      pre_pl |-> pl, pre_jokers |-> jokers,
                      pre_effects |-> effects, pre_enemy_hp |-> enemy.hp,
                      pre_enemy_effects |-> enemy.effects,
                      pre_status |-> r.pre_status,
                      after_status |-> r.after_status,
                      bonus |-> r.bonus, mult |-> r.mult, damage |-> r.damage,
                      granted |-> (~r.raised /\ with_enemy
                                   /\ r.hand_type = "Straight"),
                      prev_granted |-> atk.granted,
                      ticks_between |-> atk.ticks]
    /\ AttackFrame

\* The caller's enemy.take_damage(dmg) with the damage the attack returned
EnemyHit ==
    /\ atk.called /\ ~atk.applied
    /\ enemy' = enemy_take_damage(enemy, atk.damage).enemy
    /\ atk' = [atk EXCEPT !.applied = TRUE]
    /\ UNCHANGED <<jokers, effects, hp, next_id, pl>>
    /\ AttackFrame

\* Player.start_turn
PlayerStartTurn ==
    /\ pl.turn < MaxTurns
    /\ pl' = [pl EXCEPT !.turn = @ + 1]
    /\ LET r == tick_effects(effects, hp)
       IN  effects' = r.effects /\ hp' = r.hp
    /\ atk' = [atk EXCEPT !.ticks = @ + 1]
    /\ UNCHANGED <<jokers, enemy, next_id>>
    /\ AttackFrame

NextAttack ==
    \/ \E selected \in Selections, with_enemy \in BOOLEAN :
          \E roll \in IF with_enemy /\ DrawsChance(HandType(selected))
                      THEN BOOLEAN ELSE {FALSE} :
             Attack(selected, with_enemy, roll)
    \/ EnemyHit
    \/ PlayerStartTurn

SpecAttack == InitAttack /\ [][NextAttack]_vars

\* The player's active outgoing buff before the last attack (add_effect keeps
\* at most one DamageBuff), in tenths; 10 when there is none
PendingBuff(effs) ==
    IF \E i \in 1..Len(effs) : effs[i].kind = "DamageBuff" /\ effs[i].active
    THEN (CHOOSE e \in {effs[i] : i \in 1..Len(effs)} :
             e.kind = "DamageBuff" /\ e.active).amount
    ELSE 10

\* C3: the damage form_hand_and_attack returns is the fold, in this order, of
\* the passive items (apply_jokers), the per-turn bonus and the
\* consumable-count multiplier, the status outgoing buff, the execution bonus
\* (a fifth of the enemy's current hp, only for the pre-committed category),
\* the ability multiplier (x2 Two Pair, x4 Royal Flush) and the permanent
\* multiplier.
C3_DamageFold ==
    (atk.called /\ ~atk.raised) =>
        LET p == atk.pre_pl
            js == atk.pre_jokers
            ht == HandType(atk.selected)
            s1 == apply_jokers(Len(atk.selected), BaseDamage(atk.selected), ht,
                               js).damage
            s2a == IF InSeq(js, "berserker") THEN RatAdd(s1, 2 * p.turn) ELSE s1
            s2 == IF InSeq(js, "shaman")
                  THEN (RatInt(s2a) * (100 + 5 * Len(p.items))) \div 100
                  ELSE RatInt(s2a)
            s3 == (s2 * PendingBuff(atk.pre_effects)) \div 10
            s4 == s3 + (IF atk.with_enemy /\ InSeq(js, "executioner")
                           /\ ht = p.required
                        THEN (atk.pre_enemy_hp * 2) \div 10 ELSE 0)
            s5 == s4 * (IF ~atk.with_enemy THEN 1
                        ELSE IF ht = "Two Pair" /\ atk.roll THEN 2
                        ELSE IF ht = "Royal Flush" THEN 4 ELSE 1)
            s6 == (s5 * p.perm) \div 10
        IN  atk.damage = s6

\* C3 witness: an attack in which every stage changed the damage: a Two Pair
\* doubled, with the execution bonus, under a pending status buff, with
\* berserker and shaman held after a turn, and the permanent multiplier 1.5.
C3_Witness ==
    /\ atk.called /\ ~atk.raised
    /\ atk.hand_type = "Two Pair" /\ atk.mult = 2 /\ atk.bonus > 0
    /\ atk.after_status > atk.pre_status
    /\ InSeq(atk.pre_jokers, "berserker") /\ atk.pre_pl.turn > 0
    /\ InSeq(atk.pre_jokers, "shaman") /\ Len(atk.pre_pl.items) > 0
    /\ atk.pre_pl.perm = 15
    /\ atk.damage > atk.after_status + atk.bonus

\* C9: the buff a Straight grants leaves the damage of the attack that
\* granted it alone and multiplies the holder's next attack by 1.3, once,
\* also when one turn start (the status tick) lies in between.
C9_BuffReachesNextAttack ==
    (atk.called /\ ~atk.raised) =>
        /\ (atk.prev_granted /\ atk.ticks_between <= 1)
              => atk.after_status = TruncTenths(atk.pre_status, 13)
        /\ ~atk.prev_granted => atk.after_status = atk.pre_status

\* The part of C9 that holds: with no turn start in between, the next attack
\* is multiplied by 1.3 and the granting attack is not.
C9_BuffWithoutTick ==
    (atk.called /\ ~atk.raised) =>
        /\ (atk.prev_granted /\ atk.ticks_between = 0)
              => atk.after_status = TruncTenths(atk.pre_status, 13)
        /\ ~atk.prev_granted => atk.after_status = atk.pre_status

-----------------------------------------------------------------------------
(* boss_encounters.py.  A BossAbility is a record; a Boss is a record with *)
(* its phase (BossPhase values), declared phases, abilities, enemy,        *)
(* boss_effects registry, turn_count and special_abilities_used.           *)

BossAbility(name, damage, effs, cooldown) ==
    [name |-> name, damage |-> damage, effects |-> effs, cooldown |-> cooldown,
     current_cooldown |-> 0]

\* BossAbility.can_use
can_use(a) == a.current_cooldown <= 0

\* BossAbility.use on an ability that can be used
use(a) == [a EXCEPT !.current_cooldown = a.cooldown]

\* A variant that counts the cooldown down two at a time.
update_cooldown_by_two(a) ==
    IF a.current_cooldown > 0
    THEN [a EXCEPT !.current_cooldown = Max2(0, @ - 2)] ELSE a

\* BossAbility.update_cooldown
update_cooldown(a) ==
    IF a.current_cooldown > 0 THEN [a EXCEPT !.current_cooldown = @ - 1] ELSE a

\* Boss.__init__
Boss(name, hp0, attack, defense, abilities, phases) ==
    [name |-> name, enemy |-> Enemy(hp0, defense), attack_value |-> attack,
     abilities |-> abilities, phases |-> phases, phase |-> "intro",
     boss_effects |-> <<>>, turn_count |-> 0, special_abilities_used |-> <<>>]

\* BossManager._initialize_bosses: the Casino Manager and the Press Foreman
CasinoManager ==
    Boss("Twisted Casino Manager", 120, 15, 2,
         <<BossAbility("slot_machine_spin", 15, <<>>, 3),
           BossAbility("lucky_charm", 0, <<"shield">>, 4),
           BossAbility("high_roller", 25, <<>>, 5)>>,
         {"intro", "phase_1", "phase_2"})
PressForeman ==
    Boss("Twisted Press Foreman", 150, 18, 3,
         <<BossAbility("ink_spray", 12, <<"poison">>, 2),
           BossAbility("press_crush", 20, <<>>, 4),
           BossAbility("propaganda_blast", 18, <<"stun">>, 6)>>,
         {"intro", "phase_1", "phase_2", "phase_3"})
Bosses == {CasinoManager, PressForeman}

\* get_health_percentage() <= n/10, hp and max_hp being integers
HealthAtMost(b, n) == 10 * b.enemy.hp <= n * b.enemy.max_hp

\* A variant that enters a phase whether or not the boss declares it.
update_phase_undeclared(b) ==
    IF HealthAtMost(b, 2) THEN [b EXCEPT !.phase = "phase_3"]
    ELSE IF HealthAtMost(b, 5) THEN [b EXCEPT !.phase = "phase_2"]
    ELSE IF HealthAtMost(b, 8) THEN [b EXCEPT !.phase = "phase_1"]
    ELSE b

\* Boss.update_phase
update_phase(b) ==
    IF HealthAtMost(b, 2) /\ "phase_3" \in b.phases
    THEN [b EXCEPT !.phase = "phase_3"]
    ELSE IF HealthAtMost(b, 5) /\ "phase_2" \in b.phases
    THEN [b EXCEPT !.phase = "phase_2"]
    ELSE IF HealthAtMost(b, 8) /\ "phase_1" \in b.phases
    THEN [b EXCEPT !.phase = "phase_1"]
    ELSE b

\* available_abilities, as positions in boss.abilities
AvailableAbilities(b) ==
    {i \in 1..Len(b.abilities) : can_use(b.abilities[i])}

\* A variant that picks among all available abilities.
choose_ability_any(b) ==
    IF AvailableAbilities(b) = {} THEN {0} ELSE AvailableAbilities(b)

\* Boss.choose_ability: the positions random.choice can return; 0 for None
choose_ability(b) ==
    LET available == AvailableAbilities(b)
        unused == {i \in available :
                      ~InSeq(b.special_abilities_used, b.abilities[i].name)}
    IN  IF available = {} THEN {0}
        ELSE IF unused # {} THEN unused ELSE available

\* The phase multiplier of an ability's damage, in tenths
AbilityPhaseTenths(phase) ==
    IF phase = "phase_2" THEN 15 ELSE IF phase = "phase_3" THEN 20 ELSE 10

\* A variant that scales the basic attack as an ability is scaled.
BasicPhaseTenthsAsAbility(phase) ==
    IF phase = "phase_2" THEN 15 ELSE IF phase = "phase_3" THEN 20 ELSE 10

\* The phase multiplier of the basic attack, in tenths
BasicPhaseTenths(phase) ==
    IF phase = "phase_2" THEN 13 ELSE IF phase = "phase_3" THEN 16 ELSE 10

\* for effect in effects: ...  w: the player's registry, the boss's
\* boss_effects and the last effect identity
RECURSIVE ApplyBossEffects(_, _)
ApplyBossEffects(effs, w) ==
    IF effs = <<>> THEN w
    ELSE ApplyBossEffects(Tail(effs),
            CASE Head(effs) = "stun" ->
                    [w EXCEPT !.player = add_effect(@, StunEffect(w.next_id + 1)),
                              !.next_id = @ + 1]
              [] Head(effs) = "poison" ->
                    [w EXCEPT !.player = add_effect(@, PoisonEffect(w.next_id + 1, 5, 3)),
                              !.next_id = @ + 1]
              [] Head(effs) = "shield" ->
                    [w EXCEPT !.boss = add_effect(@, ShieldEffect(w.next_id + 1, 20)),
                              !.next_id = @ + 1]
              [] OTHER -> w)

\* The first part of Boss.take_turn: turn_count and the cooldowns
BeginTurn(b) ==
    [b EXCEPT !.turn_count = @ + 1,
              !.abilities = [i \in 1..Len(b.abilities) |->
                                update_cooldown(b.abilities[i])]]

\* Boss.take_turn(player) once choose_ability returned position i (0: None).
\* b: the boss after BeginTurn; peffs: the player's registry.
take_turn(b, peffs, nid, i) ==
    IF i # 0
    THEN LET a == b.abilities[i]
             w == ApplyBossEffects(a.effects,
                     [player |-> peffs, boss |-> b.boss_effects, next_id |-> nid])
         IN  [boss |-> [b EXCEPT !.abilities[i] = use(a),
                                 !.special_abilities_used = Append(@, a.name),
                                 !.boss_effects = w.boss],
              player |-> w.player, next_id |-> w.next_id,
              action |-> [ability |-> a.name,
                          damage |-> TruncTenths(a.damage, AbilityPhaseTenths(b.phase)),
                          effects |-> a.effects, phase |-> b.phase]]
    ELSE [boss |-> b, player |-> peffs, next_id |-> nid,
          action |-> [ability |-> "basic_attack",
                      damage |-> TruncTenths(b.attack_value, BasicPhaseTenths(b.phase)),
                      effects |-> <<>>, phase |-> b.phase]]

\* Player.take_damage
player_take_damage(effs, h, dmg) ==
    LET r == modify_incoming_damage(effs, dmg)
    IN  [effects |-> r.effects, hp |-> Max2(0, h - r.damage)]

-----------------------------------------------------------------------------
(* SpecBoss: a boss encounter.  The boss's enemy is damaged                *)
(* (Enemy.take_damage), its phase updated (Boss.update_phase), it takes a  *)
(* turn (Boss.take_turn), and BossEncounter.take_player_turn does all      *)
(* three and applies the boss's damage to the player.  effects and hp are  *)
(* the player's.  bx holds the encounter's turn_number and                 *)
(* encounter_completed, the number of on_defeat calls (defeats), and       *)
(* observes the last call: op, the boss, the player's hp and registry      *)
(* before it (pre, pre_hp, pre_effects), the position choose_ability       *)
(* returned (choice, 0 for None, -1 when no turn was taken), the action    *)
(* take_turn returned, and per ability the boss turns of its last two      *)
(* uses (last_used, prev_used, 0 for none); hits counts the damage calls.  *)

MaxBossTurns == 5
MaxBossHits == 3

\* The damage of a player's attack
BossHits == {30, 65}

NoAction == [ability |-> "none", damage |-> 0, effects |-> <<>>, phase |-> "intro"]

\* The player's hp when the encounter starts: hp is carried over from the
\* fights before, so the player arrives unhurt or wounded
BossFightHps == {PlayerMaxHp, 15}

InitBoss ==
    /\ IdlePoker /\ IdleCards /\ IdleJokers /\ IdleAttack
    /\ st = [op |-> "none"]
    /\ boss \in Bosses
    /\ effects = <<>> /\ hp \in BossFightHps /\ next_id = 0
    /\ bx = [op |-> "init", turn_number |-> 0, completed |-> FALSE,
             defeats |-> 0, hits |-> 0, pre |-> boss, pre_hp |-> hp,
             pre_effects |-> <<>>, choice |-> -1, action |-> NoAction,
             last_used |-> [i \in 1..Len(boss.abilities) |-> 0],
             prev_used |-> [i \in 1..Len(boss.abilities) |-> 0]]

BossFrame == UNCHANGED <<cards, hand_name, hand_values, jokers, aj, st, enemy,
                         pl, atk, piles, dk>>

\* bx after a call with operation op in which the boss, from b on, took a
\* turn with choice i (or none, i = -1) and returned action
Observed(op, i, turn, action) ==
    [bx EXCEPT !.op = op, !.pre = boss, !.pre_hp = hp, !.pre_effects = effects,
               !.choice = i, !.action = action,
               !.last_used = IF i > 0 THEN [@ EXCEPT ![i] = turn] ELSE @,
               !.prev_used = IF i > 0 THEN [@ EXCEPT ![i] = bx.last_used[i]]
                             ELSE @]

\* boss.enemy.take_damage(damage)
BossTakeDamage(d) ==
    /\ bx.hits < MaxBossHits
    /\ boss' = [boss EXCEPT !.enemy = enemy_take_damage(boss.enemy, d).enemy]
    /\ bx' = [Observed("damage", -1, 0, NoAction) EXCEPT !.hits = @ + 1]
    /\ UNCHANGED <<effects, hp, next_id>>
    /\ BossFrame

\* boss.update_phase()
UpdatePhase ==
    /\ boss' = update_phase(boss)
    /\ bx' = Observed("phase", -1, 0, NoAction)
    /\ UNCHANGED <<effects, hp, next_id>>
    /\ BossFrame

\* boss.take_turn(player)
BossTakeTurn ==
    /\ boss.turn_count < MaxBossTurns
    /\ \E i \in choose_ability(BeginTurn(boss)) :
          \E r \in {take_turn(BeginTurn(boss), effects, next_id, i)} :
             /\ boss' = r.boss
             /\ effects' = r.player
             /\ next_id' = r.next_id
             /\ bx' = Observed("turn", i, r.boss.turn_count, r.action)
    /\ UNCHANGED hp
    /\ BossFrame

\* BossEncounter.take_player_turn({'damage': d})
TakePlayerTurn(d) ==
    /\ bx.hits < MaxBossHits
    /\ boss.turn_count < MaxBossTurns
    /\ \E b1 \in {update_phase([boss EXCEPT !.enemy =
                                   enemy_take_damage(boss.enemy, d).enemy])} :
       \E i \in choose_ability(BeginTurn(b1)) :
       \E r \in {take_turn(BeginTurn(b1), effects, next_id, i)} :
       \E p \in {player_take_damage(r.player, hp, r.action.damage)} :
          /\ boss' = r.boss
          /\ effects' = p.effects
          /\ hp' = p.hp
          /\ next_id' = r.next_id
          /\ bx' = [Observed("player_turn", i, r.boss.turn_count, r.action)
                      EXCEPT !.hits = @ + 1,
                             !.turn_number = @ + 1,
                             !.completed = @ \/ r.boss.enemy.hp <= 0,
                             !.defeats = IF r.boss.enemy.hp <= 0 THEN @ + 1 ELSE @]
    /\ BossFrame

\* BossManager.start_boss_encounter(boss_id, player): None for a boss in
\* defeated_bosses, else a new BossEncounter around self.bosses[boss_id],
\* the Boss object made by _initialize_bosses, and start_encounter on it
start_boss_encounter(b, defeats) ==
    IF defeats > 0
    THEN [started |-> FALSE, boss |-> b]
    ELSE [started |-> TRUE, boss |-> b, turn_number |-> 0,
          completed |-> FALSE]

StartBossEncounter ==
    /\ \E r \in {start_boss_encounter(boss, bx.defeats)} :
          /\ boss' = r.boss
          /\ bx' = IF r.started
                   THEN [Observed("start_encounter", -1, 0, NoAction)
                            EXCEPT !.turn_number = r.turn_number,
                                   !.completed = r.completed]
                   ELSE Observed("start_refused", -1, 0, NoAction)
    /\ UNCHANGED <<effects, hp, next_id>>
    /\ BossFrame

NextBoss ==
    \/ StartBossEncounter
    \/ \E d \in BossHits : BossTakeDamage(d)
    \/ UpdatePhase
    \/ BossTakeTurn
    \/ \E d \in BossHits : TakePlayerTurn(d)

SpecBoss == InitBoss /\ [][NextBoss]_vars

\* The order of the phases
PhaseRank(phase) ==
    CASE phase = "intro" -> 0 [] phase = "phase_1" -> 1
      [] phase = "phase_2" -> 2 [] phase = "phase_3" -> 3

\* The threshold of a phase, in tenths of max_hp
PhaseThreshold(phase) ==
    CASE phase = "phase_1" -> 8 [] phase = "phase_2" -> 5 [] phase = "phase_3" -> 2

\* The declared phases whose threshold the boss's health has reached
ReachedPhases(b) ==
    {ph \in b.phases \ {"intro"} :
        10 * b.enemy.hp <= PhaseThreshold(ph) * b.enemy.max_hp}

\* C12: no call moves the phase backwards in the order intro, phase_1,
\* phase_2, phase_3, and after an update_phase (alone or within
\* take_player_turn) the phase is the most advanced declared phase whose
\* threshold (80%, 50%, 20% of max hp) has been reached, or the phase as it
\* was when none has; an undeclared phase is never entered.
C12_PhaseForward ==
    /\ boss.phase \in boss.phases
    /\ PhaseRank(boss.phase) >= PhaseRank(bx.pre.phase)
    /\ bx.op \in {"phase", "player_turn"} =>
          IF ReachedPhases(boss) = {} THEN boss.phase = bx.pre.phase
          ELSE /\ boss.phase \in ReachedPhases(boss)
               /\ \A ph \in ReachedPhases(boss) :
                     PhaseRank(ph) <= PhaseRank(boss.phase)

\* C12 witness: the Casino Manager, who declares no phase_3, is at or below
\* 20% of its hp after update_phase and in phase_2, having been in phase_1.
C12_Witness ==
    /\ bx.op = "phase"
    /\ boss.name = "Twisted Casino Manager"
    /\ 10 * boss.enemy.hp <= 2 * boss.enemy.max_hp
    /\ bx.pre.phase = "phase_1" /\ boss.phase = "phase_2"

\* C12 witness of the full progression: the Press Foreman enters phase_3.
C12_WitnessPhase3 ==
    /\ bx.op \in {"phase", "player_turn"}
    /\ boss.phase = "phase_3" /\ bx.pre.phase # "phase_3"

\* The last call was a boss turn (take_turn, alone or in take_player_turn)
TurnTaken == bx.op \in {"turn", "player_turn"}

\* current_cooldown of ability i after the turn's decrement, from its value
\* before the turn
Decremented(i) ==
    IF bx.pre.abilities[i].current_cooldown > 0
    THEN bx.pre.abilities[i].current_cooldown - 1 ELSE 0

\* C13: every ability's current_cooldown stays within 0..cooldown; a boss
\* turn lowers every positive current_cooldown by exactly one before it
\* chooses (the chosen ability was at 0 after that and restarts at its
\* cooldown); and an ability with cooldown c used on boss turn t is not used
\* again before boss turn t + c.
C13_Cooldowns ==
    /\ \A i \in 1..Len(boss.abilities) :
          /\ boss.abilities[i].current_cooldown >= 0
          /\ boss.abilities[i].current_cooldown <= boss.abilities[i].cooldown
          /\ bx.prev_used[i] > 0 =>
                bx.last_used[i] >= bx.prev_used[i] + boss.abilities[i].cooldown
    /\ TurnTaken =>
          /\ boss.turn_count = bx.pre.turn_count + 1
          /\ \A i \in 1..Len(boss.abilities) :
                IF i = bx.choice
                THEN /\ Decremented(i) = 0
                     /\ boss.abilities[i].current_cooldown = boss.abilities[i].cooldown
                ELSE boss.abilities[i].current_cooldown = Decremented(i)

\* C13 witness: an ability is used again exactly cooldown turns after its
\* previous use, the other cooldowns having gone down by one.
C13_Witness ==
    /\ TurnTaken /\ bx.choice > 0
    /\ bx.prev_used[bx.choice] > 0
    /\ bx.last_used[bx.choice] =
          bx.prev_used[bx.choice] + boss.abilities[bx.choice].cooldown
    /\ \E j \in 1..Len(boss.abilities) :
          /\ j # bx.choice
          /\ bx.pre.abilities[j].current_cooldown > 0
          /\ boss.abilities[j].current_cooldown =
                bx.pre.abilities[j].current_cooldown - 1

\* The abilities off cooldown once the turn's decrement is done
OffCooldown == {i \in 1..Len(boss.abilities) : Decremented(i) = 0}
UsedBefore(i) ==
    \E k \in 1..Len(bx.pre.special_abilities_used) :
        bx.pre.special_abilities_used[k] = bx.pre.abilities[i].name

\* C14: on a boss turn the boss makes a basic attack exactly when no ability
\* is off cooldown after the decrement; otherwise the chosen ability is off
\* cooldown, and not yet used in this combat whenever an unused off-cooldown
\* ability exists.
C14_ChoiceRule ==
    TurnTaken =>
        /\ (bx.action.ability = "basic_attack") <=> (OffCooldown = {})
        /\ (bx.choice = 0) <=> (bx.action.ability = "basic_attack")
        /\ bx.choice # 0 =>
              /\ bx.choice \in OffCooldown
              /\ bx.action.ability = bx.pre.abilities[bx.choice].name
              /\ (\E j \in OffCooldown : ~UsedBefore(j)) => ~UsedBefore(bx.choice)

\* C14 witness: a basic attack, every ability being on cooldown.
C14_Witness ==
    /\ TurnTaken /\ bx.action.ability = "basic_attack"
    /\ \A i \in 1..Len(boss.abilities) : boss.abilities[i].current_cooldown > 0

\* C14 witness of the preference: an unused ability was chosen while a used
\* one was off cooldown too.
C14_WitnessPreference ==
    /\ TurnTaken /\ bx.choice > 0 /\ ~UsedBefore(bx.choice)
    /\ \E j \in OffCooldown : UsedBefore(j)

\* C15: the damage take_turn reports is trunc(base * scalar) with the scalar
\* of the phase from one of two tables: ability damage x1.0 (intro, phase_1),
\* x1.5 (phase_2), x2.0 (phase_3); basic attack x1.0, x1.3, x1.6.
C15_PhaseScalars ==
    TurnTaken =>
        LET ability_tenths == CASE boss.phase = "phase_2" -> 15
                                [] boss.phase = "phase_3" -> 20
                                [] OTHER -> 10
            basic_tenths == CASE boss.phase = "phase_2" -> 13
                              [] boss.phase = "phase_3" -> 16
                              [] OTHER -> 10
        IN  /\ bx.action.phase = boss.phase
            /\ bx.action.damage =
                  IF bx.choice > 0
                  THEN (bx.pre.abilities[bx.choice].damage * ability_tenths) \div 10
                  ELSE (boss.attack_value * basic_tenths) \div 10

\* C15 witness: a basic attack of 15 in phase_2 reports 19.
C15_Witness ==
    /\ TurnTaken /\ bx.choice = 0 /\ boss.phase = "phase_2"
    /\ boss.attack_value = 15 /\ bx.action.damage = 19

\* C15 witness of the ability table: an ability in phase_2 reports 1.5 times
\* its damage.
C15_WitnessAbility ==
    /\ TurnTaken /\ bx.choice > 0 /\ boss.phase = "phase_2"
    /\ bx.pre.abilities[bx.choice].damage = 20 /\ bx.action.damage = 30

\* C16: when the attack of a take_player_turn brings the boss's hp to 0 the
\* encounter is won at once: the boss takes no turn in that exchange, so the
\* player's hp and status effects are as before, no ability went on cooldown
\* and no boss turn was counted.
C16_NoTurnAfterKill ==
    (bx.op = "player_turn" /\ bx.pre.enemy.hp > 0 /\ boss.enemy.hp = 0) =>
        /\ bx.completed
        /\ hp = bx.pre_hp
        /\ effects = bx.pre_effects
        /\ boss.abilities = bx.pre.abilities
        /\ boss.turn_count = bx.pre.turn_count

\* The part of C16 that holds: such an exchange completes the encounter.
C16_KillCompletes ==
    (bx.op = "player_turn" /\ boss.enemy.hp = 0) => bx.completed

-----------------------------------------------------------------------------
(* entities/player.py, deck.py: the player's cards.  A pile record p holds *)
(* hand and discard_pile (sequences), deck (the set of cards of            *)
(* Deck.cards: every draw of a positive count is preceded by               *)
(* Deck.shuffle, so the deck's order is never seen) and discards_left.     *)
(* Indices are Python's, from 0.                                           *)

\* sorted(indices, reverse=True)
SortDesc(indices) == Reverse(SortAsc(indices))

\* A variant that leaves the element in the list.
PopAtKeeps(s, idx) == s

\* list.pop(idx) for 0 <= idx < len(list): the list without that element
PopAt(s, idx) == SubSeq(s, 1, idx) \o SubSeq(s, idx + 2, Len(s))

\* The sequences of n distinct elements of S: what n cards off a shuffled
\* deck can be
RECURSIVE SeqsFrom(_, _)
SeqsFrom(S, n) ==
    IF n = 0 THEN {<<>>}
    ELSE UNION {{<<c>> \o t : t \in SeqsFrom(S \ {c}, n - 1)} : c \in S}

\* Deck.shuffle then Deck.draw(count): the possible drawn cards and rest
DeckDraw(deck, count) ==
    IF count <= 0 THEN {[drawn |-> <<>>, rest |-> deck]}
    ELSE {[drawn |-> d, rest |-> deck \ {d[i] : i \in 1..Len(d)}] :
             d \in SeqsFrom(deck, Min2(count, Cardinality(deck)))}

\* Player.draw_cards(count): the possible piles afterwards
draw_cards(p, count) ==
    {[p EXCEPT !.hand = p.hand \o r.drawn, !.deck = r.rest] :
        r \in DeckDraw(p.deck, count)}

\* A variant that always asks for a full hand.
TopUpCountFullHand(p, js, hand_size) == hand_size + CountIn(js, "fool")

\* Player.draw_cards(): top the hand up to hand_size plus one per Fool
TopUpCount(p, js, hand_size) ==
    Max2(0, hand_size + CountIn(js, "fool") - Len(p.hand))

\* The loop of discard_cards over the indices, highest first: indices outside
\* the hand are skipped
RECURSIVE DiscardLoop(_, _, _)
DiscardLoop(p, idxs, discarded) ==
    IF idxs = <<>> THEN [p |-> p, discarded |-> discarded]
    ELSE LET idx == Head(idxs)
         IN  IF 0 <= idx /\ idx < Len(p.hand)
             THEN DiscardLoop([p EXCEPT !.hand = PopAt(p.hand, idx),
                                        !.discard_pile = Append(@, p.hand[idx + 1])],
                              Tail(idxs), Append(discarded, p.hand[idx + 1]))
             ELSE DiscardLoop(p, Tail(idxs), discarded)

\* A variant for which the budget is never spent.
BudgetNeverSpent(p) == FALSE

\* if self.discards_left <= 0
BudgetSpent(p) == p.discards_left <= 0

\* A variant without the Echo Mage's clone.
ClonesCardNever(js, discarded) == FALSE

\* if len(discarded) == 1 and 'echo_mage' in self.jokers
ClonesCard(js, discarded) == Len(discarded) = 1 /\ InSeq(js, "echo_mage")

\* Player.discard_cards(indices): the possible piles afterwards, each with
\* the list returned
discard_cards(p, js, indices) ==
    IF BudgetSpent(p) \/ Len(indices) = 0
    THEN {[p |-> p, discarded |-> <<>>]}
    ELSE LET r == DiscardLoop([p EXCEPT !.discards_left = @ - 1],
                              SortDesc(indices), <<>>)
         IN  IF ClonesCard(js, r.discarded)
             THEN {[p |-> q, discarded |-> r.discarded] :
                      q \in draw_cards([r.p EXCEPT !.hand = Append(@, r.discarded[1])],
                                       Len(r.discarded) - 1)}
             ELSE {[p |-> q, discarded |-> r.discarded] :
                      q \in draw_cards(r.p, Len(r.discarded))}

\* A variant that rejects only the empty selection.
InvalidSelectionEmptyOnly(hand, indices) == indices = <<>>

\* form_hand_and_attack's two rejections: not indices; an index outside the hand
InvalidSelection(hand, indices) ==
    \/ indices = <<>>
    \/ \E k \in 1..Len(indices) : indices[k] >= Len(hand) \/ indices[k] < 0

\* hand[i] can be read: Python reads a negative index from the end
Readable(hand, i) == -Len(hand) <= i /\ i < Len(hand)

\* hand[i]
PyItem(hand, i) == IF i >= 0 THEN hand[i + 1] ELSE hand[Len(hand) + i + 1]

\* [self.hand[i] for i in indices]
SelectedCards(hand, indices) ==
    [k \in 1..Len(indices) |-> PyItem(hand, indices[k])]

\* for idx in sorted(indices, reverse=True):
\*     self.discard_pile.append(self.hand.pop(idx))
\* hand.pop raises IndexError when idx is outside the hand as it is then
RECURSIVE PlayedLoop(_, _)
PlayedLoop(p, idxs) ==
    IF idxs = <<>> THEN [p |-> p, raised |-> FALSE]
    ELSE IF ~Readable(p.hand, Head(idxs)) THEN [p |-> p, raised |-> TRUE]
    ELSE LET at == IF Head(idxs) >= 0 THEN Head(idxs)
                   ELSE Len(p.hand) + Head(idxs)
         IN  PlayedLoop([p EXCEPT !.hand = PopAt(p.hand, at),
                                  !.discard_pile = Append(@, p.hand[at + 1])],
                        Tail(idxs))

\* Player.refresh_deck: Deck has no refresh_from_discard, so the call raises
\* AttributeError whenever the discard pile holds a card
refresh_deck_raises(p) == p.discard_pile # <<>>

\* Player.magician_swap(hand_idx): the possible outcomes.  deck.draw(1)[0]
\* raises IndexError on an empty deck, before anything is changed
magician_swap(p, js, hand_idx) ==
    IF ~InSeq(js, "magician") \/ ~(0 <= hand_idx /\ hand_idx < Len(p.hand))
    THEN {[p |-> p, kind |-> "rejected"]}
    ELSE IF p.deck = {} THEN {[p |-> p, kind |-> "raised"]}
    ELSE {[p |-> [p EXCEPT !.hand[hand_idx + 1] = r.drawn[1],
                           !.deck = r.rest,
                           !.discard_pile = Append(@, p.hand[hand_idx + 1])],
           kind |-> "returned"] : r \in DeckDraw(p.deck, 1)}

\* Player.necromancer_retrieve(discard_idx)
necromancer_retrieve(p, js, discard_idx) ==
    IF \/ ~InSeq(js, "necromancer")
       \/ ~(0 <= discard_idx /\ discard_idx < Len(p.discard_pile))
    THEN [p |-> p, kind |-> "rejected"]
    ELSE [p |-> [p EXCEPT !.discard_pile = PopAt(@, discard_idx),
                          !.hand = Append(@, p.discard_pile[discard_idx + 1])],
          kind |-> "returned"]

\* A variant of start_combat that keeps the registry.
start_combat_keep_effects(p, effs, max_discards) ==
    [p |-> [p EXCEPT !.discards_left = max_discards], turn |-> 0,
     effects |-> effs]

\* Player.start_combat: combat_turn, reset_discards, clear_all_effects
start_combat(p, effs, max_discards) ==
    [p |-> [p EXCEPT !.discards_left = max_discards], turn |-> 0,
     effects |-> <<>>]

\* Player.end_combat: combat_turn, clear_all_effects
end_combat(effs) == [turn |-> 0, effects |-> <<>>]

-----------------------------------------------------------------------------
(* SpecCards: the player's hand, deck and discard pile under draw_cards,   *)
(* discard_cards, reset_discards and form_hand_and_attack called with      *)
(* indices and no enemy.  MaxHand stands for                               *)
(* hand_size (8 in the program), MaxDiscards for max_discards (3 in the    *)
(* program), StartDeck for the 52 cards.  dk observes                      *)
(* the last call: op, the indices, the piles, jokers and registry before   *)
(* it (pre, pre_jokers, pre_effects), what it returned (result) and the    *)
(* number of calls made (calls).                                           *)

MaxHand == 2
MaxCalls == 2
MaxDiscards == 1

StartDeck ==
    {Card("Hearts", "5"), Card("Spades", "5"), Card("Hearts", "6"),
     Card("Spades", "K")}

\* The jokers held and the registry: nothing, the Echo Mage, or the
\* single-use Business Card with the buff of an earlier Straight pending
CardLoadouts ==
    {[jokers |-> <<>>, effects |-> <<>>],
     [jokers |-> <<"echo_mage">>, effects |-> <<>>],
     [jokers |-> <<"business_card">>,
      effects |-> <<DamageBuffEffect(1, 13)>>]}

\* The Magician and the Necromancer held, with or without the Fool and the
\* buff of an earlier Straight pending
HandLoadouts ==
    {[jokers |-> <<"magician", "necromancer", "fool">>,
      effects |-> <<DamageBuffEffect(1, 13)>>],
     [jokers |-> <<"magician", "necromancer">>, effects |-> <<>>]}

\* The index lists a caller passes: up to two indices, in or out of the hand
IndexLists ==
    {<<>>} \cup {<<i>> : i \in -1..MaxHand}
           \cup {<<i, j>> : i \in -1..MaxHand, j \in 0..MaxHand}

\* What random.choice(hands) of start_combat can give
RequiredHands == {"Pair", "Straight"}

NoResult == [kind |-> "none", damage |-> 0, hand_type |-> "None", count |-> 0]

\* A result that is a kind and a number of cards
Cards(kind, count) ==
    [kind |-> kind, damage |-> 0, hand_type |-> "None", count |-> count]

\* The valid selections from a list of n cards: one or more different
\* indices in it, here in ascending order
ValidLists(n) ==
    {q \in UNION {SeqsFrom(0..(n - 1), k) : k \in 1..n} :
        \A i \in 1..(Len(q) - 1) : q[i] < q[i + 1]}

InitPiles(loadouts) ==
    /\ IdlePoker /\ IdleBoss
    /\ aj = [called |-> FALSE] /\ st = [op |-> "none"]
    /\ enemy = [hp |-> 0] /\ atk = [called |-> FALSE]
    /\ \E l \in loadouts : jokers = l.jokers /\ effects = l.effects
    /\ hp = PlayerMaxHp
    /\ next_id = 1
    /\ pl = [Build(jokers, <<>>, "none", 10).pl
                EXCEPT !.max_discards = MaxDiscards]
    /\ piles = [hand |-> <<>>, deck |-> StartDeck, discard_pile |-> <<>>,
                discards_left |-> MaxDiscards]
    /\ dk = [op |-> "init", indices |-> <<>>, pre |-> piles,
             pre_jokers |-> jokers, pre_effects |-> effects,
             result |-> NoResult, calls |-> 0,
             prev |-> [op |-> "other", hand |-> 0, deck |-> 0]]

InitCards == InitPiles(CardLoadouts)

CardsFrame == UNCHANGED <<cards, hand_name, hand_values, aj, st, enemy, atk,
                          boss, bx>>

\* dk after a call; prev tells whether the call before it was draw_cards(),
\* start_combat, or a magician_swap or necromancer_retrieve that returned
\* True, and, for draw_cards(), the sizes of hand and deck before that draw
Called(op, indices, result, counted) ==
    [op |-> op, indices |-> indices, pre |-> piles, pre_jokers |-> jokers,
     pre_effects |-> effects, result |-> result,
     calls |-> dk.calls + (IF counted THEN 1 ELSE 0),
     prev |-> IF dk.op = "draw"
              THEN [op |-> "draw", hand |-> Len(dk.pre.hand),
                    deck |-> Cardinality(dk.pre.deck)]
              ELSE [op |-> IF \/ dk.op = "start_combat"
                              \/ /\ dk.op \in {"swap", "retrieve"}
                                 /\ dk.result.kind = "returned"
                           THEN dk.op ELSE "other",
                    hand |-> 0, deck |-> 0]]

\* Player.draw_cards() at the start of a turn
DrawCards ==
    /\ \E q \in draw_cards(piles, TopUpCount(piles, jokers, MaxHand)) :
          /\ piles' = q
          /\ dk' = Called("draw", <<>>,
                          Cards("returned", Len(q.hand) - Len(piles.hand)),
                          FALSE)
    /\ UNCHANGED <<jokers, effects, hp, next_id, pl>>
    /\ CardsFrame

\* Player.discard_cards(indices)
DiscardCards(indices) ==
    /\ dk.calls < MaxCalls
    /\ \E r \in discard_cards(piles, jokers, indices) :
          /\ piles' = r.p
          /\ dk' = Called("discard", indices,
                          Cards("returned", Len(r.discarded)), TRUE)
    /\ UNCHANGED <<jokers, effects, hp, next_id, pl>>
    /\ CardsFrame

\* Player.reset_discards
ResetDiscards ==
    /\ dk.calls < MaxCalls
    /\ piles.discards_left < pl.max_discards
    /\ piles' = [piles EXCEPT !.discards_left = pl.max_discards]
    /\ dk' = Called("reset", <<>>, NoResult, TRUE)
    /\ UNCHANGED <<jokers, effects, hp, next_id, pl>>
    /\ CardsFrame

\* Player.refresh_deck
RefreshDeck ==
    /\ dk.calls < MaxCalls
    /\ dk' = Called("refresh", <<>>,
                    Cards(IF refresh_deck_raises(piles) THEN "raised"
                          ELSE "returned", 0), TRUE)
    /\ UNCHANGED <<piles, jokers, effects, hp, next_id, pl>>
    /\ CardsFrame

\* Player.magician_swap(hand_idx)
MagicianSwap(hand_idx) ==
    /\ dk.calls < MaxCalls
    /\ \E r \in magician_swap(piles, jokers, hand_idx) :
          /\ piles' = r.p
          /\ dk' = Called("swap", <<hand_idx>>, Cards(r.kind, 0), TRUE)
    /\ UNCHANGED <<jokers, effects, hp, next_id, pl>>
    /\ CardsFrame

\* Player.necromancer_retrieve(discard_idx)
NecromancerRetrieve(discard_idx) ==
    /\ dk.calls < MaxCalls
    /\ \E r \in {necromancer_retrieve(piles, jokers, discard_idx)} :
          /\ piles' = r.p
          /\ dk' = Called("retrieve", <<discard_idx>>, Cards(r.kind, 0), TRUE)
    /\ UNCHANGED <<jokers, effects, hp, next_id, pl>>
    /\ CardsFrame

\* Player.start_combat
StartCombat ==
    /\ dk.calls < MaxCalls
    /\ \E r \in {start_combat(piles, effects, pl.max_discards)} :
       \E h \in RequiredHands :
          /\ piles' = r.p
          /\ effects' = r.effects
          /\ pl' = [pl EXCEPT !.turn = r.turn, !.required = h]
    /\ dk' = Called("start_combat", <<>>, NoResult, TRUE)
    /\ UNCHANGED <<jokers, hp, next_id>>
    /\ CardsFrame

\* Player.end_combat
EndCombat ==
    /\ dk.calls < MaxCalls
    /\ \E r \in {end_combat(effects)} :
          /\ effects' = r.effects
          /\ pl' = [pl EXCEPT !.turn = r.turn]
    /\ dk' = Called("end_combat", <<>>, NoResult, TRUE)
    /\ UNCHANGED <<piles, jokers, hp, next_id>>
    /\ CardsFrame

\* Player.start_turn
StartTurnCards ==
    /\ dk.calls < MaxCalls
    /\ pl' = [pl EXCEPT !.turn = @ + 1]
    /\ \E r \in {tick_effects(effects, hp)} :
          effects' = r.effects /\ hp' = r.hp
    /\ dk' = Called("start_turn", <<>>, NoResult, TRUE)
    /\ UNCHANGED <<piles, jokers, next_id>>
    /\ CardsFrame

\* Player.form_hand_and_attack(indices): rejected
AttackRejected(indices) ==
    /\ InvalidSelection(piles.hand, indices)
    /\ dk' = Called("attack", indices,
                    Cards("rejected", 0), TRUE)
    /\ UNCHANGED <<piles, jokers, effects, hp, next_id, pl>>

\* Player.form_hand_and_attack(indices): the attack is made, the played
\* cards go to the discard pile and the hand is refilled; self.hand[i] and
\* hand.pop(idx) raise IndexError on an index outside the hand
AttackPlayed(indices) ==
    /\ ~InvalidSelection(piles.hand, indices)
    /\ IF \E k \in 1..Len(indices) : ~Readable(piles.hand, indices[k])
       THEN /\ dk' = Called("attack", indices,
                            Cards("raised", 0), TRUE)
            /\ UNCHANGED <<piles, jokers, effects, hp, next_id, pl>>
       ELSE
       \E r \in {form_hand_and_attack(pl, jokers, effects, hp, enemy, next_id,
                                      SelectedCards(piles.hand, indices),
                                      FALSE, FALSE)} :
       \E m \in {PlayedLoop(piles, SortDesc(indices))} :
          /\ jokers' = r.jokers
          /\ effects' = r.w.effects
          /\ hp' = r.w.hp
          /\ next_id' = r.w.next_id
          /\ pl' = [pl EXCEPT !.items = r.w.items,
                              !.max_discards = r.w.max_discards]
          /\ IF r.raised
             THEN /\ piles' = piles
                  /\ dk' = Called("attack", indices,
                                  [kind |-> "raised", damage |-> 0,
                                   hand_type |-> r.hand_type, count |-> 0],
                                  TRUE)
             ELSE IF m.raised
             THEN /\ piles' = m.p
                  /\ dk' = Called("attack", indices,
                                  [kind |-> "raised", damage |-> 0,
                                   hand_type |-> r.hand_type, count |-> 0],
                                  TRUE)
             ELSE /\ piles' \in draw_cards(m.p, Len(indices))
                  /\ dk' = Called("attack", indices,
                                  [kind |-> "returned", damage |-> r.damage,
                                   hand_type |-> r.hand_type,
                                   count |-> Len(indices)], TRUE)

\* Player.form_hand_and_attack(indices)
AttackIndices(indices) ==
    /\ dk.calls < MaxCalls
    /\ \/ AttackRejected(indices)
       \/ AttackPlayed(indices)
    /\ CardsFrame

\* The draws that draw nothing are left to SpecHand
NextCards ==
    \/ TopUpCount(piles, jokers, MaxHand) > 0 /\ piles.deck # {} /\ DrawCards
    \/ \E indices \in IndexLists : DiscardCards(indices)
    \/ ResetDiscards
    \/ \E indices \in IndexLists : AttackIndices(indices)

SpecCards == InitCards /\ [][NextCards]_vars

-----------------------------------------------------------------------------
(* SpecHand: the same piles with the Magician, the Necromancer and the     *)
(* Fool held, under every card operation called with a valid selection,    *)
(* and the combat's start, end and turns.                                  *)

InitHand == InitPiles(HandLoadouts)

NextHand ==
    \/ DrawCards
    \/ \E indices \in ValidLists(Len(piles.hand)) : DiscardCards(indices)
    \/ \E indices \in ValidLists(Len(piles.hand)) : AttackIndices(indices)
    \/ \E i \in 0..(Len(piles.hand) - 1) : MagicianSwap(i)
    \/ \E i \in 0..(Len(piles.discard_pile) - 1) : NecromancerRetrieve(i)
    \/ RefreshDeck
    \/ StartCombat
    \/ EndCombat
    \/ StartTurnCards

SpecHand == InitHand /\ [][NextHand]_vars

\* The last call was discard_cards / form_hand_and_attack
Discarded == dk.op = "discard"
Attacked == dk.op = "attack"

\* An index of the last call lies outside the hand as it was before the call
OutOfRange ==
    \E k \in 1..Len(dk.indices) :
        dk.indices[k] < 0 \/ dk.indices[k] >= Len(dk.pre.hand)

\* An index of the last call occurs twice
Repeated ==
    \E k, l \in 1..Len(dk.indices) : k # l /\ dk.indices[k] = dk.indices[l]

\* C17: a discard_cards call whose indices hold an out-of-range or a repeated
\* index changes nothing: discards_left, hand, discard pile and deck are as
\* they were before the call.
C17_BadDiscardRejected ==
    (Discarded /\ (OutOfRange \/ Repeated)) => piles = dk.pre

\* What the code does instead: the budget is spent
C17_BudgetSpentOnBadIndex ==
    (Discarded /\ (OutOfRange \/ Repeated) /\ dk.pre.discards_left > 0)
        => piles.discards_left = dk.pre.discards_left - 1

\* The last call left hand, discard pile, deck, discards_left, jokers and
\* status effects as they were
CallChangedNothing ==
    /\ piles = dk.pre
    /\ jokers = dk.pre_jokers
    /\ effects = dk.pre_effects

\* C18: a form_hand_and_attack call whose indices hold a repeated index is
\* rejected: it does not raise, returns no hand category, and leaves hand,
\* discard pile, deck, jokers and status effects unchanged.
C18_RepeatedIndexRejected ==
    (Attacked /\ Repeated)
        => /\ dk.result.kind = "rejected"
           /\ dk.result.hand_type = "None"
           /\ CallChangedNothing

\* What the code does instead when the repeated index is in range: the same
\* card is counted twice and the attack is carried out (or hand.pop raises)
C18_RepeatedIndexPlayed ==
    (Attacked /\ Repeated /\ ~OutOfRange) => dk.result.kind # "rejected"

\* C19: a form_hand_and_attack call with an empty selection, or with any
\* index outside [0, len(hand)), returns (0.0, None, []) and leaves hand,
\* discard pile, deck, jokers (the single-use ones included) and status
\* effects unchanged.
C19_InvalidSelectionRejected ==
    (Attacked /\ (dk.indices = <<>> \/ OutOfRange))
        => /\ dk.result = Cards("rejected", 0)
           /\ CallChangedNothing

\* A call with one index in the hand and one past its end, made while a
\* single-use joker is held and a damage buff is pending
C19_Witness ==
    /\ Attacked /\ OutOfRange
    /\ \E k \in 1..Len(dk.indices) :
          0 <= dk.indices[k] /\ dk.indices[k] < Len(dk.pre.hand)
    /\ InSeq(jokers, "business_card")
    /\ PendingBuff(effects) = 13
    /\ dk.result.kind = "rejected"

\* A call with no index, made with cards in hand
C19_WitnessEmpty ==
    /\ Attacked /\ dk.indices = <<>>
    /\ dk.pre.hand # <<>>
    /\ dk.result.kind = "rejected"

\* C20: a discard_cards call made with discards_left at 0 returns an empty
\* list and leaves everything unchanged, and discards_left always lies
\* between 0 and max_discards.
C20_DiscardBudget ==
    /\ 0 <= piles.discards_left /\ piles.discards_left <= pl.max_discards
    /\ (Discarded /\ dk.pre.discards_left = 0)
          => dk.result.count = 0 /\ CallChangedNothing

\* A call that names a card of the hand, made with the budget used up
C20_Witness ==
    /\ Discarded /\ dk.pre.discards_left = 0
    /\ \E k \in 1..Len(dk.indices) :
          0 <= dk.indices[k] /\ dk.indices[k] < Len(dk.pre.hand)
    /\ piles = dk.pre

\* The budget given back by reset_discards after it was used up
C20_WitnessReset ==
    /\ dk.op = "reset" /\ dk.pre.discards_left = 0
    /\ piles.discards_left = pl.max_discards

\* The last call was draw_cards(), and the count it passed to Deck.draw
Drew == dk.op = "draw"
Asked == TopUpCount(dk.pre, dk.pre_jokers, MaxHand)

\* C21: Deck.draw(count) with count between 1 and the size of a full deck
\* returns exactly count cards whatever the deck's current size (an
\* exhausted deck is recreated as a full deck).
C21_DrawReturnsCount ==
    (Drew /\ 1 <= Asked /\ Asked <= Cardinality(StartDeck))
        => dk.result.count = Asked

\* What the code does: it returns what is left, at most count cards
C21_DrawReturnsWhatIsLeft ==
    Drew => dk.result.count = Min2(Asked, Cardinality(dk.pre.deck))

\* The last two calls were draw_cards(), which drew DrawnBefore cards, and
\* a discard_cards that named exactly those cards and discarded them
DrawnBefore == Len(dk.pre.hand) - dk.prev.hand
DrewThenDiscarded ==
    /\ Discarded /\ dk.prev.op = "draw"
    /\ DrawnBefore >= 1
    /\ {dk.indices[k] : k \in 1..Len(dk.indices)}
          = dk.prev.hand..(Len(dk.pre.hand) - 1)
    /\ dk.result.count = DrawnBefore

\* C22: when the player draws N cards and then discards those N cards, no
\* clone passive held, the deck is back at the number of cards it had before
\* the draw.
C22_DrawDiscardRoundTrip ==
    (DrewThenDiscarded /\ ~InSeq(dk.pre_jokers, "echo_mage"))
        => Cardinality(piles.deck) = dk.prev.deck

\* What the code does: the discarded cards go to the discard pile, and the
\* deck gives the replacements as well
C22_DiscardsLeaveTheDeck ==
    (DrewThenDiscarded /\ ~InSeq(dk.pre_jokers, "echo_mage"))
        => /\ Cardinality(piles.deck) < dk.prev.deck
           /\ Len(piles.discard_pile) = Len(dk.pre.discard_pile) + DrawnBefore

\* The cards of a list
CardsOf(s) == {s[i] : i \in 1..Len(s)}

\* Deck, hand and discard pile partition the cards of the initial deck
Partition(p) ==
    /\ Cardinality(p.deck) + Len(p.hand) + Len(p.discard_pile)
          = Cardinality(StartDeck)
    /\ p.deck \cup CardsOf(p.hand) \cup CardsOf(p.discard_pile) = StartDeck
    /\ Cardinality(CardsOf(p.hand)) = Len(p.hand)
    /\ Cardinality(CardsOf(p.discard_pile)) = Len(p.discard_pile)
    /\ p.deck \cap CardsOf(p.hand) = {}
    /\ p.deck \cap CardsOf(p.discard_pile) = {}
    /\ CardsOf(p.hand) \cap CardsOf(p.discard_pile) = {}

C23_WitnessAttack ==
    /\ Attacked /\ dk.result.kind = "returned"
    /\ Len(dk.indices) >= 2
    /\ piles.discard_pile # <<>> /\ piles.hand # <<>>
    /\ Partition(piles)

\* The size the top-up aims at: hand_size plus one per Fool held
Target == MaxHand + CountIn(jokers, "fool")

\* A second draw_cards() right after a first changes neither the hand nor
\* the number of cards in the deck
TopUpIdempotent ==
    (Drew /\ dk.prev.op = "draw")
        => /\ piles.hand = dk.pre.hand
           /\ Cardinality(piles.deck) = Cardinality(dk.pre.deck)

C24_WitnessAbove ==
    /\ Drew /\ Len(dk.pre.hand) > Target
    /\ piles.hand = dk.pre.hand

\* The sum of the values of the cards of the last attack
SelectedSum == SumSeq([i \in 1..Len(atk.selected) |-> CardValue(atk.selected[i])])

\* C25: a selection that is not 5 cards and matches no partial pattern is
\* played as "Strike" with multiplier 0: its base damage is 0 whatever the
\* card values.
C25_StrikeDealsNothing ==
    (atk.called /\ atk.hand_type = "Strike") => atk.base = 0

\* C25, amended: such a selection is played as "Strike" with multiplier 1
\* (HAND_MULTIPLIERS.get("Strike", 1)): its base damage is the sum of the
\* card values.
C25_StrikeDealsCardSum ==
    (atk.called /\ atk.hand_type = "Strike") => atk.base = SelectedSum

\* Two cards of different ranks, 5 and 6, played for a base damage of 11
C25_Witness ==
    /\ atk.called /\ atk.selected = Strike2
    /\ atk.hand_type = "Strike" /\ atk.base = 11

\* The multiplier table as the specification gives it
TableMultiplier ==
    [h \in {"High Card", "Pair", "Two Pair", "Three of a Kind", "Straight",
            "Flush", "Full House", "Four of a Kind", "Straight Flush",
            "Flush House", "Five of a Kind", "Royal Flush", "Flush Five"} |->
        CASE h = "High Card" -> 0 [] h = "Pair" -> 1 [] h = "Two Pair" -> 2
          [] h = "Three of a Kind" -> 3 [] h = "Straight" -> 4
          [] h = "Flush" -> 5 [] h = "Full House" -> 9
          [] h = "Four of a Kind" -> 16 [] h = "Straight Flush" -> 25
          [] h = "Flush House" -> 35 [] h = "Five of a Kind" -> 40
          [] h = "Royal Flush" -> 50 [] h = "Flush Five" -> 100]

\* C26: for every valid attack with a category of the table the base damage
\* is the sum of the selected cards' values times the category's multiplier;
\* five same-suit cards valued 10..14 give Royal Flush with base 3000.
C26_BaseDamageTable ==
    /\ (atk.called /\ atk.hand_type \in DOMAIN TableMultiplier)
          => atk.base = SelectedSum * TableMultiplier[atk.hand_type]
    /\ (atk.called /\ atk.selected = RoyalFlush5)
          => atk.hand_type = "Royal Flush" /\ atk.base = 3000

C26_Witness ==
    /\ atk.called /\ atk.selected = RoyalFlush5
    /\ SelectedSum = 60 /\ atk.base = 3000

C26_WitnessPartial ==
    /\ atk.called /\ atk.selected = ThreeOfAKind4
    /\ atk.hand_type = "Three of a Kind" /\ atk.base = 30

\* The Poison entries of a registry, as amount and duration
Poisons(effs) ==
    LET ps == SelectSeq(effs, LAMBDA e : e.kind = "Poison")
    IN  [i \in 1..Len(ps) |-> <<ps[i].amount, ps[i].duration>>]

\* The last attack played Three of a Kind against the enemy and nothing has
\* happened since
PlayedThreeOfAKind ==
    /\ atk.called /\ ~atk.raised /\ atk.with_enemy
    /\ atk.hand_type = "Three of a Kind"
    /\ ~atk.applied /\ atk.ticks = 0

\* C30: playing Three of a Kind with base damage b attaches
\* Poison(max(3, b div 10), 3 ticks) to the enemy and
\* Poison(max(3, b div 10) div 2, 3 ticks) to the player, on top of any
\* Poison already present on either side (base 30: Poison(3,3) and (1,3)).
C30_ThreeOfAKindPoison ==
    PlayedThreeOfAKind
        => /\ Poisons(enemy.effects)
                = Append(Poisons(atk.pre_enemy_effects),
                         <<Max2(3, atk.base \div 10), 3>>)
           /\ Poisons(effects)
                = Append(Poisons(atk.pre_effects),
                         <<Max2(3, atk.base \div 10) \div 2, 3>>)
           /\ atk.base = 30
                => /\ Poisons(enemy.effects)[Len(Poisons(enemy.effects))] = <<3, 3>>
                   /\ Poisons(effects)[Len(Poisons(effects))] = <<1, 3>>

\* Base 30 played with Poison already on both sides
C30_Witness ==
    /\ PlayedThreeOfAKind /\ atk.base = 30
    /\ Poisons(atk.pre_effects) # <<>>
    /\ Poisons(atk.pre_enemy_effects) # <<>>
    /\ Len(Poisons(effects)) = Len(Poisons(atk.pre_effects)) + 1

\* A base damage whose tenth is above 3
C30_WitnessLarge ==
    /\ PlayedThreeOfAKind /\ atk.base \div 10 > 3
    /\ Len(Poisons(enemy.effects)) = 1

C27_WitnessEnd ==
    /\ dk.op = "end_combat" /\ dk.pre_effects # <<>> /\ effects = <<>>

\* The first turn of a combat started with a buff pending
C27_WitnessFirstTurn ==
    /\ dk.op = "start_turn" /\ dk.prev.op = "start_combat"
    /\ dk.calls = 2 /\ effects = <<>>

\* C28: when a new encounter is created for a boss that was fought before
\* but not defeated, the boss starts in phase Intro, with no status effects
\* and with an empty record of used abilities.
C28_NewEncounterFreshBoss ==
    (bx.op = "start_encounter" /\ boss.enemy.hp > 0)
        => /\ boss.phase = "intro"
           /\ boss.boss_effects = <<>>
           /\ boss.special_abilities_used = <<>>

\* What the code does: the encounter gets the Boss object as the earlier
\* encounter left it
C28_NewEncounterSameBoss ==
    bx.op = "start_encounter" => boss = bx.pre

\* The number of cards in deck, hand and discard pile together
TotalCards(p) == Cardinality(p.deck) + Len(p.hand) + Len(p.discard_pile)

\* The last call was a discard_cards, with the Echo Mage held, that
\* discarded n cards
EchoDiscard(n) ==
    /\ Discarded /\ InSeq(dk.pre_jokers, "echo_mage")
    /\ dk.result.count = n

\* C29: with the clone passive held, discarding exactly one card puts that
\* card on the discard pile and a duplicate of it back into the hand without
\* drawing: the hand keeps its size, the deck is unchanged and the number of
\* cards across deck, hand and discard pile grows by exactly one; discarding
\* two or more cards creates no duplicate.
C29_CloneOnSingleDiscard ==
    /\ EchoDiscard(1)
          => /\ Len(piles.hand) = Len(dk.pre.hand)
             /\ piles.deck = dk.pre.deck
             /\ TotalCards(piles) = TotalCards(dk.pre) + 1
             /\ Len(piles.discard_pile) = Len(dk.pre.discard_pile) + 1
             /\ piles.hand[Len(piles.hand)]
                   = piles.discard_pile[Len(piles.discard_pile)]
    /\ \A n \in 2..Len(dk.pre.hand) :
          EchoDiscard(n) => TotalCards(piles) = TotalCards(dk.pre)

\* One card of a full hand discarded with cards left in the deck
C29_Witness ==
    /\ EchoDiscard(1)
    /\ Len(dk.pre.hand) = MaxHand
    /\ dk.pre.deck # {}
    /\ TotalCards(piles) = TotalCards(dk.pre) + 1

\* Two cards discarded with the Echo Mage held
C29_WitnessTwo ==
    /\ EchoDiscard(2)
    /\ Len(piles.discard_pile) = Len(dk.pre.discard_pile) + 2

\* The last call on the held list was the named Player method
JokerCall(op) == ~aj.called /\ "op" \in DOMAIN aj /\ aj.op = op

\* C31: the number of held passive items never exceeds max_jokers (5):
\* add_joker at capacity is rejected and leaves the list unchanged, and
\* neither apply_jokers (the attack) nor remove_joker adds an item.
C31_JokerCapacity ==
    /\ Len(jokers) <= max_jokers
    /\ max_jokers = 5
    /\ (JokerCall("add_joker") /\ Len(aj.before) >= max_jokers)
          => jokers = aj.before
    /\ aj.called => Len(jokers) <= Len(aj.before)
    /\ JokerCall("remove_joker") => Len(jokers) <= aj.len

\* add_joker was called on a full list
C31_Witness ==
    /\ JokerCall("add_joker")
    /\ Len(aj.before) = max_jokers
    /\ jokers = aj.before

\* remove_joker dropped an item of a full list
C31_WitnessRemove ==
    /\ JokerCall("remove_joker")
    /\ aj.removed /\ aj.len = max_jokers
    /\ Len(jokers) = max_jokers - 1

\* C32: a defeated boss is never re-fought and is recorded once: after the
\* boss's defeat start_boss_encounter returns no encounter, and however many
\* further take_player_turn calls are made on the finished encounter,
\* on_defeat has run exactly once (the boss's id is in defeated_bosses once).
C32_DefeatRecordedOnce ==
    /\ bx.op = "start_encounter" => bx.defeats = 0
    /\ bx.completed => bx.defeats = 1
    /\ bx.defeats <= 1

\* The part of C32 that holds: no encounter starts for a boss whose defeat
\* was recorded, and a recorded defeat is a boss at 0 hp.
C32_DefeatedNotRefought ==
    /\ bx.op = "start_encounter" => bx.defeats = 0
    /\ (bx.op = "start_refused" \/ bx.defeats > 0) => boss.enemy.hp = 0

\* The last call was a take_player_turn made while the player was stunned
StunnedPlayerTurn == bx.op = "player_turn" /\ has_effect(bx.pre_effects, "Stun")

\* C33: a combatant with an active Stun takes no action on its turn; for the
\* player stunned by a boss ability: the next take_player_turn applies no
\* attack of the player, so the boss's hp is as before.
C33_StunnedTakesNoAction ==
    StunnedPlayerTurn => boss.enemy.hp = bx.pre.enemy.hp

\* What the code does instead: the stunned player's damage reaches the boss
\* like any other, and the Stun, which nothing ticks, stays in the registry.
C33_StunnedPlayerStillHits ==
    StunnedPlayerTurn =>
        /\ bx.pre.enemy.hp > 0 => boss.enemy.hp < bx.pre.enemy.hp
        /\ has_effect(effects, "Stun")

-----------------------------------------------------------------------------
(* SpecCombat: one combat of the player against an enemy.  The player      *)
(* attacks with the enemy passed and the returned damage is applied        *)
(* (form_hand_and_attack, Enemy.take_damage), the enemy attacks            *)
(* (Enemy.attack_player), either side's turn starts (the status tick), the *)
(* player uses a tarot item or levels up.  effects and hp are the          *)
(* player's.  st observes the last call (op), for attack_player what it    *)
(* returned, the identity of the Stun that refused it (stun, 0 for none)   *)
(* and of the one that refused the call before (prev_stun), whether a Stun *)
(* was put on the enemy since the attack_player before (fresh) and the     *)
(* number of Enemy.start_turn calls since that call or that Stun,          *)
(* whichever is later (ticks, and ticks_before at the call); pre_hp and    *)
(* pre_enemy_hp are the two hp before the last call; steps counts the      *)
(* calls made and levels the level-ups.                                    *)

MaxRounds == 4
MaxLevels == 1

\* ENEMY_TEMPLATES['Skeleton']['attack']
SkeletonAttack == 8

HighCard1 == <<Card("Hearts", "5")>>
FourOfAKind4 == <<Card("Hearts", "3"), Card("Spades", "3"), Card("Clubs", "3"),
                  Card("Diamonds", "3")>>
FlushFive5 == <<Card("Hearts", "2"), Card("Hearts", "2"), Card("Hearts", "2"),
                Card("Hearts", "2"), Card("Hearts", "2")>>
CombatSelections == {HighCard1, Pair2, ThreeOfAKind4, FourOfAKind4, FlushFive5}

\* The identity of the active Stun in a registry, 0 when there is none
ActiveStun(effs) ==
    IF has_effect(effs, "Stun")
    THEN (CHOOSE e \in {effs[i] : i \in 1..Len(effs)} :
             e.kind = "Stun" /\ e.active).id
    ELSE 0

\* Enemy.attack_player(player)
attack_player(en, attack, peffs, h) ==
    IF has_effect(en.effects, "Stun")
    THEN [returned |-> FALSE, enemy |-> en, effects |-> peffs, hp |-> h]
    ELSE LET out == modify_outgoing_damage(en.effects, attack)
             p == player_take_damage(peffs, h, out.damage)
         IN  [returned |-> TRUE, enemy |-> [en EXCEPT !.effects = out.effects],
              effects |-> p.effects, hp |-> p.hp]

\* A variant of the level-up that raises max_hp and leaves hp 5 above it.
level_up_over(p) == [max_hp |-> p.max_hp + 5, hp |-> p.max_hp + 10]

\* Player.level_up: max_hp += 5; hp = max_hp
level_up(p) == [max_hp |-> p.max_hp + 5, hp |-> p.max_hp + 5]

\* The player's hp when the combat starts: unhurt, or wounded in the fights
\* before
CombatHps == {PlayerMaxHp, 5}

InitCombat ==
    /\ IdlePoker /\ IdleBoss /\ IdleCards /\ IdleJokers
    /\ pl = Build(<<>>, <<"moon">>, "none", 10).pl
    /\ effects = <<>> /\ hp \in CombatHps /\ next_id = 0
    /\ enemy \in EnemyTemplates
    /\ atk = [called |-> FALSE, count |-> 0, ticks |-> 0, granted |-> FALSE,
              applied |-> TRUE]
    /\ st = [op |-> "init", returned |-> TRUE, stun |-> 0, prev_stun |-> 0,
             fresh |-> FALSE, fresh_before |-> FALSE, ticks |-> 0,
             ticks_before |-> 0, steps |-> 0, levels |-> 0,
             pre_hp |-> hp, pre_enemy_hp |-> enemy.hp]

CombatFrame == UNCHANGED <<boss, bx, piles, dk, cards, hand_name, hand_values,
                           aj, atk>>

\* The player's attack of game.py: form_hand_and_attack, here with the enemy
\* passed, then enemy.take_damage(dmg)
CombatAttack(selected, roll) ==
    /\ st.steps < MaxRounds
    /\ \E r \in {form_hand_and_attack(pl, jokers, effects, hp, enemy, next_id,
                                      selected, TRUE, roll)} :
       \E stunned \in {ActiveStun(r.w.enemy.effects) # ActiveStun(enemy.effects)} :
           /\ jokers' = r.jokers
           /\ effects' = r.w.effects
           /\ hp' = r.w.hp
           /\ enemy' = enemy_take_damage(r.w.enemy, r.damage).enemy
           /\ next_id' = r.w.next_id
           /\ pl' = [pl EXCEPT !.items = r.w.items,
                               !.max_discards = r.w.max_discards]
           /\ st' = [st EXCEPT !.op = "attack", !.steps = @ + 1,
                               !.pre_hp = hp, !.pre_enemy_hp = enemy.hp,
                               !.fresh = @ \/ stunned,
                               !.ticks = IF stunned THEN 0 ELSE @]
    /\ CombatFrame

\* The enemy's turn of game.py and ursina_combat.py: enemy.attack_player
EnemyAttackPlayer ==
    /\ st.steps < MaxRounds
    /\ enemy.hp > 0 /\ hp > 0
    /\ \E r \in {attack_player(enemy, SkeletonAttack, effects, hp)} :
           /\ enemy' = r.enemy
           /\ effects' = r.effects
           /\ hp' = r.hp
           /\ st' = [st EXCEPT !.op = "attack_player", !.steps = @ + 1,
                               !.pre_hp = hp, !.pre_enemy_hp = enemy.hp,
                               !.returned = r.returned,
                               !.stun = ActiveStun(enemy.effects),
                               !.prev_stun = st.stun,
                               !.fresh = FALSE, !.fresh_before = st.fresh,
                               !.ticks = 0, !.ticks_before = st.ticks]
    /\ UNCHANGED <<jokers, next_id, pl>>
    /\ CombatFrame

\* Enemy.start_turn
EnemyStartTurn ==
    /\ st.steps < MaxRounds
    /\ \E r \in {tick_effects(enemy.effects, enemy.hp)} :
           enemy' = [enemy EXCEPT !.effects = r.effects, !.hp = r.hp]
    /\ st' = [st EXCEPT !.op = "enemy_start_turn", !.steps = @ + 1,
                               !.pre_hp = hp, !.pre_enemy_hp = enemy.hp,
                        !.ticks = Min2(2, @ + 1)]
    /\ UNCHANGED <<jokers, effects, hp, next_id, pl>>
    /\ CombatFrame

\* Player.start_turn
CombatStartTurn ==
    /\ st.steps < MaxRounds
    /\ \E r \in {tick_effects(effects, hp)} :
           effects' = r.effects /\ hp' = r.hp
    /\ pl' = [pl EXCEPT !.turn = @ + 1]
    /\ st' = [st EXCEPT !.op = "start_turn", !.steps = @ + 1,
                               !.pre_hp = hp, !.pre_enemy_hp = enemy.hp]
    /\ UNCHANGED <<jokers, enemy, next_id>>
    /\ CombatFrame

\* CombatUI.use_item's _choose: it.on_use(self); player.items.remove(it)
UseItem ==
    /\ st.steps < MaxRounds
    /\ pl.items # <<>>
    /\ hp' = UseTarot(Head(pl.items), hp, pl.max_hp)
    /\ pl' = [pl EXCEPT !.items = Tail(@)]
    /\ st' = [st EXCEPT !.op = "use_item", !.steps = @ + 1,
                               !.pre_hp = hp, !.pre_enemy_hp = enemy.hp]
    /\ UNCHANGED <<jokers, effects, enemy, next_id>>
    /\ CombatFrame

\* Player.level_up
LevelUp ==
    /\ st.steps < MaxRounds
    /\ st.levels < MaxLevels
    /\ \E r \in {level_up(pl)} :
           /\ pl' = [pl EXCEPT !.max_hp = r.max_hp]
           /\ hp' = r.hp
    /\ st' = [st EXCEPT !.op = "level_up", !.steps = @ + 1,
                               !.pre_hp = hp, !.pre_enemy_hp = enemy.hp, !.levels = @ + 1]
    /\ UNCHANGED <<jokers, effects, enemy, next_id>>
    /\ CombatFrame

NextCombat ==
    \/ \E selected \in CombatSelections :
          \E roll \in IF DrawsChance(HandType(selected))
                      THEN BOOLEAN ELSE {FALSE} :
             CombatAttack(selected, roll)
    \/ EnemyAttackPlayer
    \/ EnemyStartTurn
    \/ CombatStartTurn
    \/ UseItem
    \/ LevelUp

SpecCombat == InitCombat /\ [][NextCombat]_vars

\* The last call was an attack_player on an enemy that a Stun had stopped at
\* the call before, or that was stunned since that call
AttackAfterStun ==
    st.op = "attack_player" /\ (st.fresh_before \/ st.prev_stun # 0)

\* C34: a Stun lasts exactly one turn of the stunned combatant: an enemy
\* stunned during the player's turn skips its next attack (it is not stunned
\* for zero turns), and the Stun that cost it one attack does not cost it the
\* attack after (it is not stunned forever).
C34_StunLastsOneTurn ==
    /\ (st.op = "attack_player" /\ st.fresh_before) => ~st.returned
    /\ (st.op = "attack_player" /\ st.prev_stun # 0)
          => st.stun # st.prev_stun

\* What the code does instead: the Stun stays until the enemy's status tick
\* runs, which no combat loop calls, and the first tick ends it: attack_player
\* is refused exactly when no Enemy.start_turn ran since the Stun.
C34_StunLastsUntilTick ==
    AttackAfterStun => (st.returned <=> st.ticks_before > 0)

\* The last take_player_turn was made with the player alive and left the
\* player at 0 hp and the boss alive
PlayerFell ==
    /\ bx.op = "player_turn"
    /\ bx.pre_hp > 0 /\ hp = 0
    /\ boss.enemy.hp > 0

\* The last take_player_turn was made on an encounter whose player was
\* already at 0 hp, the boss being alive
TurnAfterFall ==
    /\ bx.op = "player_turn"
    /\ bx.pre_hp = 0
    /\ bx.pre.enemy.hp > 0

\* C35: when the boss's action brings the player's hp to 0 while the boss is
\* alive, take_player_turn reports the defeat and the encounter is marked
\* completed, and no later take_player_turn call applies damage to either
\* side.
C35_PlayerDefeatEndsEncounter ==
    /\ PlayerFell => bx.completed
    /\ TurnAfterFall => boss.enemy.hp = bx.pre.enemy.hp

\* What the code does instead: the encounter is completed by the boss's
\* defeat only, and a turn taken after the player fell still hits the boss.
C35_OnlyBossDefeatCompletes ==
    /\ bx.completed => bx.defeats > 0
    /\ PlayerFell => ~bx.completed
    /\ TurnAfterFall => boss.enemy.hp < bx.pre.enemy.hp

\* C36: apply_jokers never fails, whatever identifiers are held: an
\* identifier with no catalogue entry is skipped, also when a held Gemini
\* selects it as one of the first two other items to duplicate.
C36_ApplyJokersNeverFails ==
    aj.called => ~aj.raised

\* The part of C36 that holds: the main pass skips an unknown identifier, so
\* a call without a Gemini never fails; with a Gemini the call fails exactly
\* when one of the first two other items has no catalogue entry.
C36_FailsOnUnknownDuplicate ==
    aj.called =>
        (aj.raised <=>
            /\ InSeq(aj.before, "gemini")
            /\ \E i \in 1..Len(DuplicateTargets(aj.before)) :
                  DuplicateTargets(aj.before)[i] \notin JOKER_KEYS)

\* The last call damaged a boss at full hp that held the shield of an
\* ability carrying "shield"
ShieldedBossHit ==
    /\ bx.op \in {"damage", "player_turn"}
    /\ has_effect(bx.pre.boss_effects, "Shield")
    /\ bx.pre.enemy.hp = bx.pre.enemy.max_hp

\* What the last call took off the boss's hp
BossHpLost == bx.pre.enemy.hp - boss.enemy.hp

\* C37: after a boss used an ability that carries the "shield" effect, the
\* next damage the player deals to the boss is reduced by what the 20-point
\* shield absorbs before it reaches the boss's hp.
C37_ShieldProtectsBoss ==
    ShieldedBossHit =>
        \E d \in BossHits :
            BossHpLost = Max2(0, (d - Min2(20, d)) - bx.pre.enemy.defense)

\* What the code does instead: the shield sits in boss_effects, which
\* Enemy.take_damage never consults: the hit lands in full, less the defense,
\* and a plain damage call leaves the shield as it was.
C37_ShieldNeverAbsorbs ==
    ShieldedBossHit =>
        /\ \E d \in BossHits : BossHpLost = Max2(0, d - bx.pre.enemy.defense)
        /\ bx.op = "damage" => boss.boss_effects = bx.pre.boss_effects

\* The last call was the named joker ability and returned True
AbilityUsed(op) == dk.op = op /\ dk.result.kind = "returned"

\* C38: within one player turn magician_swap succeeds at most once and
\* necromancer_retrieve succeeds at most once (so a turn's retrieves add at
\* most one card to the hand): a call that follows a successful call of the
\* same ability, with no turn start in between, does not succeed.
C38_AbilitiesOncePerTurn ==
    /\ dk.prev.op = "swap" => ~AbilityUsed("swap")
    /\ dk.prev.op = "retrieve" => ~AbilityUsed("retrieve")

\* What the code does instead: the abilities succeed whenever the joker is
\* held and the index is valid (and, for the swap, the deck has a card),
\* whatever was called before.
C38_AbilitiesUnlimited ==
    /\ (dk.op = "swap" /\ dk.pre.deck # {})
          => (AbilityUsed("swap")
                 <=> /\ InSeq(dk.pre_jokers, "magician")
                     /\ dk.indices[1] \in 0..(Len(dk.pre.hand) - 1))
    /\ dk.op = "retrieve"
          => (AbilityUsed("retrieve")
                 <=> /\ InSeq(dk.pre_jokers, "necromancer")
                     /\ dk.indices[1] \in 0..(Len(dk.pre.discard_pile) - 1))

\* The last call was a magician_swap on a card of the hand, with the
\* Magician held and the deck empty
SwapOnEmptyDeck ==
    /\ dk.op = "swap"
    /\ InSeq(dk.pre_jokers, "magician")
    /\ dk.indices[1] \in 0..(Len(dk.pre.hand) - 1)
    /\ dk.pre.deck = {}

\* C39: magician_swap called when the deck is empty is rejected: it returns
\* False, never raises, and leaves hand, deck and discard pile unchanged.
C39_SwapOnEmptyDeckRejected ==
    SwapOnEmptyDeck => (dk.result.kind = "rejected" /\ piles = dk.pre)

\* What the code does instead: the call raises, having changed nothing.
C39_SwapOnEmptyDeckRaises ==
    SwapOnEmptyDeck => (dk.result.kind = "raised" /\ piles = dk.pre)

\* C40: for the player and for the enemy 0 <= hp <= max_hp in every
\* reachable state, under take_damage, poison ticks, the Pair's heal,
\* consumable heals, the Flush Five's bonus damage and level-ups.
C40_HpWithinBounds ==
    /\ 0 <= hp /\ hp <= pl.max_hp
    /\ 0 <= enemy.hp /\ enemy.hp <= enemy.max_hp

\* A heal that would have passed max_hp: The Moon (+10) used by a player
\* less than 10 below it
C40_Witness ==
    /\ st.op = "use_item"
    /\ st.pre_hp < pl.max_hp /\ st.pre_hp + 10 > pl.max_hp
    /\ hp = pl.max_hp

\* An attack that would have passed 0: the enemy, alive, is brought to 0
C40_WitnessKill ==
    /\ st.op = "attack"
    /\ st.pre_enemy_hp > 0 /\ enemy.hp = 0

\* A poison tick lowered the enemy's hp, and a level-up raised the player's
C40_WitnessTick ==
    /\ st.op = "enemy_start_turn"
    /\ enemy.hp < st.pre_enemy_hp
    /\ st.levels > 0 /\ hp = pl.max_hp /\ pl.max_hp > PlayerMaxHp

\* An attack of the enemy that would have passed 0: the player, alive with
\* less hp than the attack, is brought to 0
C40_WitnessFall ==
    /\ st.op = "attack_player" /\ st.returned
    /\ st.pre_hp > 0 /\ st.pre_hp < SkeletonAttack
    /\ hp = 0

====
